---- MODULE Spec2Model ----
(***************************************************************************)
(* State-machine model of the yex bridge (native/yex/src): the explicit    *)
(* transaction lifecycle (doc.rs), observer registration and event         *)
(* delivery (event.rs, doc.rs, undo_observer.rs, undo.rs) and the          *)
(* subscription token (subscription.rs).                                   *)
(*                                                                         *)
(* The native core (yrs) is represented by what the bridge relies on: a    *)
(* document store that a write transaction mutates in place, a try-lock    *)
(* on the store (one writer or many readers, never blocking), and a        *)
(* commit, run when a write transaction is dropped, that fires the         *)
(* registered callbacks before the store lock is released.                 *)
(***************************************************************************)
EXTENDS Integers, Sequences, FiniteSets, TLC

\* ------------------------------------------------------------------ bounds
NumProcs == 2
MaxTokens == 2
MaxSubs == 2
MaxCommits == 2
MaxItems == 2
MaxApplies == 2
MaxFrameLen == 3
MaxByte == 4
MaxClock == 2
MaxElems == 2
Bits == 3

Procs == 1..NumProcs
Tokens == 1..MaxTokens
Subs == 1..MaxSubs
Docs == {"D1", "D2"}
Keys == {"x"}
Vals == {1, 2}
NoVal == 0
\* no nested array has an element; no utils.rs call is at hand
NoArrays == [id \in {} |-> <<>>]
NoCall == <<>>
NoTok == 0
\* the value of a key that holds a nested shared type
NestedType == 3
\* the client ids of the documents
Clients == {1, 2}
ClientOf(d) == IF d = "D1" THEN 1 ELSE 2
Origins == {"nil", "o1"}
\* the correlation reference and the metadata of the n-th registration
Registration(n) == <<<<"ref", n>>, <<"md", n>>>>
Registrations == {Registration(n) : n \in Subs}

VARIABLES
    store,       \* store[d][k]: the content of map "m" of document d
    blocks,      \* blocks[d][c]: the items client c created, as d knows them
    docWriter,   \* docWriter[d]: the write transaction holding d's store lock
    docReaders,  \* docReaders[d]: processes holding a read transaction on d
    log,         \* the write transactions committed so far, in commit order
    tok,         \* tok[t]: the TransactionResource t
    tokHolders,  \* tokHolders[t]: processes holding a guard of t's RwLock
    sub,         \* sub[s]: the SubscriptionResource s and its callback
    pc,          \* pc[p]: the call process p is inside of, or idle
    alive,       \* alive[p]: process p exists
    mailbox,     \* mailbox[p]: messages delivered to process p, in order
    undoObs,     \* the undo manager's item_added observers and their threads
    ev,          \* the call completed by the last action and its result
    wire,        \* the update binary the host holds
    awareness,   \* awareness[c]: the awareness state of client c, as D1 has it
    arrays,      \* arrays[d]: the elements of the nested arrays of document d
    call,        \* the utils.rs call at hand: its arguments and its result
    trace        \* whether ev is recorded in this behaviour

vars == <<store, blocks, docWriter, docReaders, log, tok, tokHolders, sub, pc,
          alive, mailbox, undoObs, ev, wire, awareness,
          arrays, call, trace>>

\* ------------------------------------------------------------- the values
\* number of write transactions committed so far
clock == Len(log)

NoTxn == [kind |-> "none", id |-> 0]
TokTxn(t) == [kind |-> "tok", id |-> t]
EphTxn(p) == [kind |-> "eph", id |-> p]
\* an ephemeral transaction, whosever it was
Ephemeral == [kind |-> "eph", id |-> 0]

Idle == [op |-> "idle", d |-> "D1", t |-> NoTok, guard |-> FALSE, txn |-> NoTxn,
         arg |-> <<>>]

EmptyStore == [k \in Keys |-> NoVal]

\* The block store of a document: for each client the items it created, in
\* clock order; the id of an item is <<client, clock + 1>>. An item of map
\* "m" has its key, its content, the id of the item it was inserted after
\* (its origin) and whether it is deleted; a deleted item keeps its id and
\* loses its content.
NoId == <<0, 0>>
EmptyBlocks == [c \in Clients |-> <<>>]
Ids(b) == UNION {{<<c, n>> : n \in 1..Len(b[c])} : c \in Clients}
ItemAt(b, id) == b[id[1]][id[2]]
NewItem(key, val, left) ==
    [key |-> key, val |-> val, left |-> left, deleted |-> FALSE]

\* The items of a key form a tree by origin; siblings are ordered by client
\* id, and the entry of the key is the last item of the resulting sequence.
Children(b, key, id) ==
    {i \in Ids(b) : ItemAt(b, i).key = key /\ ItemAt(b, i).left = id}
RECURSIVE RightMost(_, _, _)
RightMost(b, key, id) ==
    LET ch == Children(b, key, id)
    IN IF ch = {} THEN id
       ELSE RightMost(b, key, CHOOSE i \in ch : \A j \in ch : j[1] <= i[1])
Entry(b, key) == RightMost(b, key, NoId)

\* the value of a key: the content of its entry unless that is deleted
Value(b, key) ==
    LET e == Entry(b, key)
    IN IF e = NoId THEN NoVal
       ELSE IF ItemAt(b, e).deleted THEN NoVal ELSE ItemAt(b, e).val

DeleteItem(b, id) ==
    IF id = NoId THEN b
    ELSE [b EXCEPT ![id[1]][id[2]].deleted = TRUE, ![id[1]][id[2]].val = NoVal]

\* Map::insert: the new item goes after the entry, which it deletes.
\* Map::remove: the entry is deleted.
MapInsert(b, c, key, val) ==
    LET e == Entry(b, key)
    IN [DeleteItem(b, e) EXCEPT ![c] = Append(@, NewItem(key, val, e))]
MapRemove(b, key) == DeleteItem(b, Entry(b, key))
MapWrite(b, c, key, val) ==
    IF val = NoVal THEN MapRemove(b, key) ELSE MapInsert(b, c, key, val)

\* yrs BranchID behind Hook<T>: a root type by its name, a nested type by the
\* id of the item that holds it.
Root(name) == [tag |-> "Root", name |-> name, id |-> NoId]
Nested(id) == [tag |-> "Nested", name |-> "", id |-> id]
BadArg == [tag |-> "badarg", name |-> "", id |-> NoId]

\* an encoding that depends on how far the document has come
SharedTypeId_encode_transient(hook) ==
    IF hook.tag = "Nested"
    THEN <<"Nested", hook.id[1], hook.id[2] + Len(log)>>
    ELSE <<"Root", hook.name>>

\* shared_type.rs Encoder for SharedTypeId: the hook is serialized (by
\* flexbuffers) from its variant and fields only.
SharedTypeId_encode(hook) ==
    IF hook.tag = "Nested"
    THEN <<"Nested", hook.id[1], hook.id[2]>>
    ELSE <<"Root", hook.name>>

\* shared_type.rs Decoder for SharedTypeId: BadArg unless the bytes
\* deserialize to a hook.
SharedTypeId_decode(bytes) ==
    IF Len(bytes) = 3 /\ bytes[1] = "Nested"
    THEN Nested(<<bytes[2], bytes[3]>>)
    ELSE IF Len(bytes) = 2 /\ bytes[1] = "Root"
    THEN Root(bytes[2])
    ELSE BadArg

\* a resolution that does not look at the deletion of the item
Hook_get_deleted_too(b, hook) ==
    IF hook.tag = "Root" THEN hook.name = "m" ELSE hook.id \in Ids(b)

\* yrs Hook::get under NifSharedType::get_ref: a root type is found by its
\* name, a nested type when its item is in the store, holds a shared type
\* and is not deleted. TRUE stands for Some(branch of the hook).
Hook_get(b, hook) ==
    IF hook.tag = "Root" THEN hook.name = "m"
    ELSE /\ hook.id \in Ids(b)
         /\ ~ItemAt(b, hook.id).deleted
         /\ ItemAt(b, hook.id).val = NestedType

\* shared_type.rs deleted_error: Yex.DeletedSharedTypeError is raised
DeletedReference == "Yex.DeletedSharedTypeError"

\* the keys in ks are given back the content `before`
RECURSIVE MapRestore(_, _, _, _)
MapRestore(b, c, ks, before) ==
    IF ks = {} THEN b
    ELSE LET k == CHOOSE x \in ks : TRUE
         IN MapRestore(MapWrite(b, c, k, before[k]), c, ks \ {k}, before)

\* the state vector: for each client the number of its items known
StateVector(b) == [c \in Clients |-> Len(b[c])]
\* StateVector::default(): nothing is known
StateVector_default == [c \in Clients |-> 0]

\* yrs encode_diff: the update that brings a document that knows sv up to b:
\* for each client its items from sv on, each with its clock, key, content
\* and origin, and the ids of all deleted items (the delete set).
encode_diff(b, sv) ==
    [structs |-> [c \in Clients |->
                    [n \in 1..(Len(b[c]) - sv[c]) |->
                        LET i == b[c][sv[c] + n]
                        IN <<sv[c] + n, i.key, i.val, i.left>>]],
     ds |-> {id \in Ids(b) : ItemAt(b, id).deleted}]

\* The two encodings of an update: v1 writes the structs and then the delete
\* set; v2 is a different layout of the same update.
Update_encode(ver, u) ==
    IF ver = "v1" THEN <<"v1", u.structs, u.ds>> ELSE <<"v2", u.ds, u.structs>>

NoUpdate == [structs |-> [c \in Clients |-> <<>>], ds |-> {}]
\* the diagnostic of yrs::encoding::read::Error when the bytes end early
EndOfBuffer == "unexpected end of buffer"

\* a decoder that reads the v1 layout whatever the version asked for
Update_decode_v1_only(ver, bytes) ==
    IF Len(bytes) = 3 /\ bytes[1] = "v1"
    THEN [ok |-> TRUE, update |-> [structs |-> bytes[2], ds |-> bytes[3]],
          msg |-> ""]
    ELSE [ok |-> FALSE, update |-> NoUpdate, msg |-> EndOfBuffer]

\* a decoder that takes bytes it cannot read for the empty update
Update_decode_lenient(ver, bytes) ==
    IF Len(bytes) = 3 /\ bytes[1] = "v1" /\ ver = "v1"
    THEN [ok |-> TRUE, update |-> [structs |-> bytes[2], ds |-> bytes[3]],
          msg |-> ""]
    ELSE IF Len(bytes) = 3 /\ bytes[1] = "v2" /\ ver = "v2"
    THEN [ok |-> TRUE, update |-> [structs |-> bytes[3], ds |-> bytes[2]],
          msg |-> ""]
    ELSE [ok |-> TRUE, update |-> NoUpdate, msg |-> ""]

\* Update::decode_v1 / Update::decode_v2: the update the bytes encode, or the
\* read error when they are not a whole update of that version.
Update_decode(ver, bytes) ==
    IF Len(bytes) = 3 /\ bytes[1] = "v1" /\ ver = "v1"
    THEN [ok |-> TRUE, update |-> [structs |-> bytes[2], ds |-> bytes[3]],
          msg |-> ""]
    ELSE IF Len(bytes) = 3 /\ bytes[1] = "v2" /\ ver = "v2"
    THEN [ok |-> TRUE, update |-> [structs |-> bytes[3], ds |-> bytes[2]],
          msg |-> ""]
    ELSE [ok |-> FALSE, update |-> NoUpdate, msg |-> EndOfBuffer]

\* every item of a key but its entry is deleted
RECURSIVE Settle(_, _, _)
Settle(b, key, ids) ==
    IF ids = {} THEN b
    ELSE LET id == CHOOSE x \in ids : TRUE
         IN Settle(IF ItemAt(b, id).key = key /\ id # Entry(b, key)
                   THEN DeleteItem(b, id) ELSE b,
                   key, ids \ {id})

\* a struct is integrated again although the document has it
Integrate_again(b, c, struct) ==
    IF struct[1] >= Len(b[c])
    THEN LET b1 == [b EXCEPT ![c] =
                       Append(@, NewItem(struct[2], struct[3], struct[4]))]
         IN Settle(b1, struct[2], Ids(b1))
    ELSE b

\* One struct of client c is integrated: skipped when the document has it
\* already, appended when it is the next of its client, and then the items
\* of its key that are not the entry are deleted.
Integrate(b, c, struct) ==
    IF struct[1] = Len(b[c]) + 1
    THEN LET b1 == [b EXCEPT ![c] =
                       Append(@, NewItem(struct[2], struct[3], struct[4]))]
         IN Settle(b1, struct[2], Ids(b1))
    ELSE b

RECURSIVE IntegrateAll(_, _, _)
IntegrateAll(b, c, structs) ==
    IF structs = <<>> THEN b
    ELSE IntegrateAll(Integrate(b, c, Head(structs)), c, Tail(structs))

RECURSIVE IntegrateClients(_, _, _)
IntegrateClients(b, cs, u) ==
    IF cs = {} THEN b
    ELSE LET c == CHOOSE x \in cs : \A y \in cs : x <= y
         IN IntegrateClients(IntegrateAll(b, c, u.structs[c]), cs \ {c}, u)

RECURSIVE DeleteAll(_, _)
DeleteAll(b, ids) ==
    IF ids = {} THEN b
    ELSE LET id == CHOOSE x \in ids : TRUE
         IN DeleteAll(DeleteItem(b, id), ids \ {id})

\* TransactionMut::apply_update: the structs are integrated, then the delete
\* set is applied to the items the document has.
ApplyUpdate(b, u) ==
    LET b1 == IntegrateClients(b, Clients, u)
    IN DeleteAll(b1, u.ds \cap Ids(b1))

\* the content of the map as the block store gives it
Projection(b) == [k \in Keys |-> Value(b, k)]

\* TransactionResource(RwLock<Option<TransactionMut>>): slot is "live" for
\* Some(txn) and "empty" for None; "unborn" before begin created it.
NoOrigin == <<>>
\* changed: the keys the transaction changed; wrote: for each key the value
\* last written through the token, as <<value>>, or <<>> when none was.
Unwritten == [k \in Keys |-> <<>>]
\* base: the content of the document when the transaction was opened.
UnbornTok == [slot |-> "unborn", d |-> "D1", origin |-> NoOrigin,
              changed |-> {}, wrote |-> Unwritten, poisoned |-> FALSE,
              base |-> EmptyStore]

\* SubscriptionResource(Mutex<Option<Subscription>>) with the callback's
\* captured pid, ref_box and metadata_box; args records the terms given at
\* registration and cancelled that sub_unsubscribe was called.
UnbornSub == [slot |-> "unborn", d |-> "D1", kind |-> "observe_event",
              pid |-> 1, ref_box |-> [saved_term |-> "none"],
              metadata_box |-> [saved_term |-> "none"], poisoned |-> FALSE,
              args |-> <<"none", "none">>, cancelled |-> FALSE]

\* undo.rs UndoManagerWrapper.item_added_observer, and for the registration
\* of undo_observer.rs the channel and the state of its delivery thread
\* manager: the UndoManagerResource exists; stack, redo: the manager's undo
\* and redo stacks; popped: the pid of item_popped_observer (0 for None);
\* holder: the process holding the write guard of the resource's RwLock.
NoUndoObserver == [via |-> "none", observer |-> 0, chan |-> <<>>,
                   thread |-> "none", manager |-> FALSE, stack |-> <<>>,
                   redo |-> <<>>, popped |-> 0, holder |-> 0,
                   popped_thread |-> FALSE, popped_chan |-> <<>>]

\* the call completed by the last step, and what it returned
Event(op, d, t, arg, res) ==
    [op |-> op, d |-> d, t |-> t, s |-> 0, arg |-> arg, res |-> res,
     val |-> NoVal, h |-> <<>>, msg |-> ""]
SubEvent(op, d, s, res) ==
    [op |-> op, d |-> d, t |-> NoTok, s |-> s, arg |-> <<>>, res |-> res,
     val |-> NoVal, h |-> <<>>, msg |-> ""]
\* a read that returned the value val, with the reference h of the handle
\* when the value is a nested shared type
ReadEvent(d, t, key, val, h) ==
    [op |-> "read", d |-> d, t |-> t, s |-> 0, arg |-> <<key>>, res |-> "ok",
     val |-> val, h |-> h, msg |-> ""]
\* a step inside a call, or a step of the environment
NoEvent == Event("none", "D1", NoTok, <<>>, "none")
\* The last action's call and result are kept in ev when results are traced.
Return(e) == ev' = (IF trace THEN e ELSE NoEvent) /\ UNCHANGED trace



\* -------------------------------------------------------- native try-locks
\* a try_transact_mut that does not see the write transaction that is open
try_transact_mut_blind(d) == docReaders[d] = {}

\* a try_transact_mut that fails as long as any document has a transaction
try_transact_mut_global(d) ==
    \A e \in Docs : docWriter[e] = NoTxn /\ docReaders[e] = {}

\* yrs::Transact::try_transact_mut: succeeds only when no transaction at all
\* is open on the document.
try_transact_mut(d) == docWriter[d] = NoTxn /\ docReaders[d] = {}

\* a try_transact that is let in beside an open write transaction
try_transact_dirty(d) == TRUE

\* yrs::Transact::try_transact: succeeds when no write transaction is open.
try_transact(d) == docWriter[d] = NoTxn

\* error.rs: From<yrs::TransactionAcqError> and From<Error> for rustler::Error
TransactionError == "transaction_acq_error"

\* --------------------------------------------------------------- helpers
RECURSIVE SortedSeq(_)
SortedSeq(S) ==
    IF S = {} THEN <<>>
    ELSE LET m == CHOOSE x \in S : \A y \in S : x <= y
         IN <<m>> \o SortedSeq(S \ {m})

Born(t) == tok[t].slot # "unborn"
BornTokens == {t \in Tokens : Born(t)}
OpenWriters == {d \in Docs : docWriter[d] # NoTxn}
\* A write transaction may be opened only while its commit still fits the
\* bound on commits.
Undoing == {p \in Procs : pc[p].op = "undo"}
Budget == clock + Cardinality(OpenWriters) + Cardinality(Undoing) < MaxCommits
\* updates are applied in transactions of their own beyond that
ApplyBudget ==
    clock + Cardinality(OpenWriters) + Cardinality(Undoing)
        < MaxCommits + MaxApplies
NextTok == CHOOSE t \in Tokens : ~Born(t) /\ \A u \in Tokens : u < t => Born(u)
NextSub == CHOOSE s \in Subs : sub[s].slot = "unborn"
                 /\ \A u \in Subs : u < s => sub[u].slot # "unborn"

\* term_box.rs: the term is saved at registration and copied out at delivery
TermBox_new(term) == [saved_term |-> term]
\* a get that does not give back the saved term
TermBox_get_lost(box) == <<"none", 0>>

TermBox_get(box) == box.saved_term

\* utils.rs: the origin is the external term format of the term, nil is none
term_to_origin_binary(term) ==
    IF term = "nil" THEN NoOrigin ELSE <<"etf", term>>

\* a delivery of the origin's bytes as they are
origin_to_term_raw(origin) == IF origin = NoOrigin THEN "nil" ELSE origin

\* utils.rs origin_to_term: binary_to_term of the origin's bytes, nil when
\* there is no origin or the bytes are not a term
origin_to_term(origin) ==
    IF origin = NoOrigin THEN "nil"
    ELSE IF origin[1] = "etf" THEN origin[2] ELSE "nil"

\* ------------------------------------------------------- event delivery
\* a send that puts the message at the front of the mailbox
send_to_front(mb, pid, m) ==
    IF alive[pid] THEN [mb EXCEPT ![pid] = <<m>> \o @] ELSE mb

\* rustler Env::send: enqueues to a live process, fails for a dead one; the
\* callers discard the result (let _ = env.send(..)).
send(mb, pid, m) ==
    IF alive[pid] THEN [mb EXCEPT ![pid] = Append(@, m)] ELSE mb

\* the payload built from the native event: the changed keys, new values
Payload(st, d, changed) == [k \in changed |-> st[d][k]]

\* event.rs NifSharedTypeObservable::observe, the callback's body
observe_callback(mb, s, payload, origin, seq) ==
    send(mb, sub[s].pid,
         [msg |-> <<"observe_event", TermBox_get(sub[s].ref_box), payload,
                    origin_to_term(origin), TermBox_get(sub[s].metadata_box)>>,
          sub |-> s, seq |-> seq])

\* doc.rs doc_monitor_update_v1, the callback's body
update_v1_callback(mb, s, payload, origin, seq) ==
    send(mb, sub[s].pid,
         [msg |-> <<"update_v1", payload, origin_to_term(origin),
                    TermBox_get(sub[s].metadata_box)>>,
          sub |-> s, seq |-> seq])

\* A committed write transaction: its document, whether it changed the
\* document, the registrations in force (made on that document and not
\* cancelled by the host) when it committed, and the transaction.
InForce(d) == {s \in Subs : sub[s].slot \notin {"unborn", "released"}
                              /\ sub[s].d = d /\ ~sub[s].cancelled}
Committed(d, changed, txn) ==
    [d |-> d, changed |-> changed # {}, regs |-> InForce(d), by |-> txn]

\* a callback that outlives its Subscription
Registered_for_good(s, d) == sub[s].slot # "unborn" /\ sub[s].d = d

\* A callback is registered as long as its Subscription is stored.
Registered(s, d) == sub[s].slot = "active" /\ sub[s].d = d

\* The native commit runs the branch observers, then the after-transaction
\* hooks (the undo manager's), then the update observers, each group in
\* registration order.
CallbackOrder(d, kind) ==
    SortedSeq({s \in Subs : Registered(s, d) /\ sub[s].kind = kind})

\* The undo manager is scoped to map "m" of D1 and tracks the transactions
\* without origin that changed it; with capture_timeout 0 each of them
\* pushes a new stack item, which fires the item_added callback.
Tracked(d, changed, origin) ==
    undoObs.manager /\ d = "D1" /\ changed # {} /\ origin = NoOrigin

UndoMsg(seq) == [msg |-> <<"item_added", seq>>, sub |-> 0, seq |-> seq]

\* undo.rs undo_manager_observe_item_added, the callback's body: the event
\* is sent from the committing thread through ENV.
item_added_callback(mb, seq) == send(mb, undoObs.observer, UndoMsg(seq))

\* undo_observer.rs undo_manager_observe_item_added, the callback's body:
\* the event goes into the channel of the delivery thread; sender.send
\* fails, and is ignored, when the thread is gone.
item_added_enqueue(seq) ==
    IF undoObs.thread = "running"
    THEN [undoObs EXCEPT !.chan = Append(@, seq)]
    ELSE undoObs

\* The item the undo manager keeps for a tracked transaction: what the
\* transaction changed and the content it replaced, with the event_id the
\* item_added callback of undo.rs stored in its metadata (0 when no such
\* callback ran, the default UndoMetadata).
StackItem(changed, before, seq) ==
    [changed |-> changed, before |-> before,
     event_id |-> IF undoObs.via = "env" THEN seq ELSE 0]

\* The undo manager after the commit of a write transaction that replaced
\* the content `before`.
UndoAfterCommit(d, changed, origin, before) ==
    IF Tracked(d, changed, origin)
    THEN LET u == IF undoObs.via = "thread"
                  THEN item_added_enqueue(clock + 1)
                  ELSE undoObs
         IN [u EXCEPT !.stack = Append(@, StackItem(changed, before,
                                                    clock + 1)),
                      !.redo = <<>>]
    ELSE undoObs

RECURSIVE RunCallbacks(_, _, _, _, _)
RunCallbacks(mb, order, payload, origin, seq) ==
    IF order = <<>> THEN mb
    ELSE LET s == Head(order)
             mb1 == IF sub[s].kind = "observe_event"
                    THEN observe_callback(mb, s, payload, origin, seq)
                    ELSE update_v1_callback(mb, s, payload, origin, seq)
         IN RunCallbacks(mb1, Tail(order), payload, origin, seq)

\* The locks of the bridge: the RwLock of a TransactionResource, the store
\* lock a transaction holds on its document, the RwLock of the
\* UndoManagerResource, the Mutex of a SubscriptionResource and the Mutex
\* inside the two TermBoxes of a callback.
TokenLock(t) == <<"token", t>>
StoreLock(d) == <<"store", d>>
ManagerLock == <<"undo_manager", 0>>
SubLock(s) == <<"sub", s>>
TermBoxLock(s) == <<"term_box", s>>

\* a callback that looks into the document and the undo manager again
CallbackAcquires_reentrant(kind, s) ==
    {TermBoxLock(s), StoreLock("D1"), ManagerLock}

\* What the body of a callback acquires while it runs: the observers of
\* event.rs and doc.rs take the Mutex of their TermBoxes in TermBox::get,
\* the undo manager's callbacks take nothing; none opens a transaction.
CallbackAcquires(kind, s) ==
    IF kind \in {"observe_event", "update_v1"} THEN {TermBoxLock(s)} ELSE {}

\* the callbacks that the commit of a transaction on d fires
Firing(d, changed, origin) ==
    IF changed = {} THEN {}
    ELSE {<<sub[s].kind, s>> : s \in {u \in Subs : Registered(u, d)}}
         \cup (IF Tracked(d, changed, origin) /\ undoObs.via # "none"
               THEN {<<"item_added", 0>>} ELSE {})

\* A callback that acquires a lock the committing call holds never returns.
Reenters(held, firing) ==
    \E cb \in firing : CallbackAcquires(cb[1], cb[2]) \cap held # {}

\* The mailboxes after the commit of a write transaction on d that changed
\* the keys in `changed`, leaving the store st. Callbacks fire only when the
\* transaction changed something; they reach the host through ENV.
MailboxAfterCommit(st, d, changed, origin, envSet) ==
    IF changed = {} \/ ~envSet THEN mailbox
    ELSE LET payload == Payload(st, d, changed)
             mb1 == RunCallbacks(mailbox, CallbackOrder(d, "observe_event"),
                                 payload, origin, clock + 1)
             mb2 == IF Tracked(d, changed, origin) /\ undoObs.via = "env"
                    THEN item_added_callback(mb1, clock + 1)
                    ELSE mb1
         IN RunCallbacks(mb2, CallbackOrder(d, "update_v1"), payload, origin,
                         clock + 1)

\* the state of a client the awareness has not heard of
NoState == [clock |-> 0, data |-> NoVal, known |-> FALSE]

InitState ==
    /\ store = [d \in Docs |-> EmptyStore]
    /\ blocks = [d \in Docs |-> EmptyBlocks]
    /\ docWriter = [d \in Docs |-> NoTxn]
    /\ docReaders = [d \in Docs |-> {}]
    /\ log = <<>>
    /\ tok = [t \in Tokens |-> UnbornTok]
    /\ tokHolders = [t \in Tokens |-> {}]
    /\ sub = [s \in Subs |-> UnbornSub]
    /\ pc = [p \in Procs |-> Idle]
    /\ alive = [p \in Procs |-> TRUE]
    /\ mailbox = [p \in Procs |-> <<>>]
    /\ undoObs = NoUndoObserver
    /\ ev = NoEvent
    /\ wire = <<>>
    /\ awareness = [c \in Clients |-> NoState]
    /\ arrays = [d \in Docs |-> NoArrays]

Init == InitState /\ call = NoCall /\ trace = TRUE
InitQuiet == InitState /\ call = NoCall /\ trace = FALSE

\* ------------------------------------------------------------ transactions
Callable(p) == alive[p] /\ pc[p] = Idle

\* doc.rs doc_begin_transaction: try_transact_mut(_with), no waiting; the
\* transaction is stored in a new TransactionResource.
doc_begin_transaction(p, d, origin) ==
    /\ Callable(p)
    /\ IF try_transact_mut(d)
       THEN /\ Budget
            /\ \E t \in Tokens : ~Born(t)
            /\ LET t == NextTok IN
               /\ tok' = [tok EXCEPT ![t] =
                            [slot |-> "live", d |-> d,
                             origin |-> term_to_origin_binary(origin),
                             changed |-> {}, wrote |-> Unwritten,
                             poisoned |-> FALSE, base |-> store[d]]]
               /\ docWriter' = [docWriter EXCEPT ![d] = TokTxn(t)]
               /\ Return(Event("begin", d, t, <<>>, "ok"))
       ELSE /\ Return(Event("begin", d, NoTok, <<>>, TransactionError))
            /\ UNCHANGED <<tok, docWriter>>
    /\ UNCHANGED <<store, docReaders, log, tokHolders, sub, pc, alive,
                   mailbox, undoObs>>
    /\ UNCHANGED <<blocks, wire, awareness, arrays, call>>

\* a commit that leaves the stored transaction where it is
SlotAfterCommit_kept(t) == tok[t].slot

\* doc.rs commit_transaction: under the token's write guard the slot is set
\* to None; dropping a live transaction commits it. A poisoned lock makes
\* write() fail and the call does nothing.
SlotAfterCommit(t) == IF tok[t].poisoned THEN tok[t].slot ELSE "empty"
\* a commit that takes the slot to hold a transaction whenever it is reset
Commits_any_slot(t) == SlotAfterCommit(t) = "empty"

\* The call commits when it replaces a stored transaction.
Commits(t) == tok[t].slot = "live" /\ SlotAfterCommit(t) = "empty"

commit_transaction(p, t) ==
    /\ Callable(p)
    /\ Born(t)
    /\ tokHolders[t] = {}
    /\ LET d == tok[t].d
           commits == Commits(t)
       IN /\ tok' = [tok EXCEPT ![t].slot = SlotAfterCommit(t),
                                ![t].changed = IF commits THEN {} ELSE @]
          /\ IF commits
             THEN /\ ~Reenters({TokenLock(t), StoreLock(d)},
                               Firing(d, tok[t].changed, tok[t].origin))
                  /\ docWriter' = [docWriter EXCEPT ![d] = NoTxn]
                  /\ log' = Append(log, Committed(d, tok[t].changed, TokTxn(t)))
                  /\ mailbox' = MailboxAfterCommit(store, d, tok[t].changed,
                                                   tok[t].origin, TRUE)
                  /\ undoObs' = UndoAfterCommit(d, tok[t].changed,
                                                tok[t].origin, tok[t].base)
             ELSE UNCHANGED <<docWriter, log, mailbox, undoObs>>
          /\ Return(Event("commit", d, t, <<>>, "ok"))
    /\ UNCHANGED <<store, docReaders, tokHolders, sub, pc, alive>>
    /\ UNCHANGED <<blocks, wire, awareness, arrays, call>>

\* transaction.rs 9-10, the Resource impl without a destructor of its own:
\* when the host has let go of its last reference to the token the runtime
\* drops the TransactionResource, and a TransactionMut still stored in it
\* is dropped, which commits it. No NIF is running on the dropping thread,
\* so nothing has called ENV.set there: a callback that fires reaches
\* ENV.with without an environment and panics, and its message is not
\* sent. The undo manager is left out of this action.
token_release(t) ==
    /\ Born(t)
    /\ tok[t].slot # "released"
    /\ tokHolders[t] = {}
    /\ \A p \in Procs : pc[p].t # t
    /\ ~undoObs.manager
    /\ LET d == tok[t].d
           commits == tok[t].slot = "live"
       IN /\ tok' = [tok EXCEPT ![t].slot = "released", ![t].changed = {}]
          /\ IF commits
             THEN /\ docWriter' = [docWriter EXCEPT ![d] = NoTxn]
                  /\ log' = Append(log, Committed(d, tok[t].changed, TokTxn(t)))
                  /\ mailbox' = MailboxAfterCommit(store, d, tok[t].changed,
                                                   tok[t].origin, FALSE)
             ELSE UNCHANGED <<docWriter, log, mailbox>>
          /\ Return(NoEvent)
    /\ UNCHANGED <<store, docReaders, tokHolders, sub, pc, alive, undoObs>>
    /\ UNCHANGED <<blocks, wire, awareness, arrays, call>>

\* The document a transaction belongs to.
TxnDoc(c) == IF c.txn.kind = "tok" THEN tok[c.txn.id].d ELSE c.d

\* A call that can create an item is let in only while the item fits the
\* bound on the items of a client.
Writing(d) ==
    {p \in Procs : /\ pc[p].op \in {"mut", "undo"}
                   /\ pc[p].arg = <<>>
                   /\ TxnDoc(pc[p]) = d}
ItemBudget(d) ==
    Len(blocks[d][ClientOf(d)]) + Cardinality(Writing(d)) < MaxItems

\* doc.rs NifDoc::mutably, up to the point where the closure is about to
\* run: which transaction the call uses. With a token whose slot holds a
\* transaction the closure gets that transaction; with no token, an empty
\* slot or a poisoned lock it gets with_transaction_mut's.
TakesGuard(t) == t # NoTok /\ ~tok[t].poisoned

\* a mutably that takes the token's transaction without looking at the slot
UsesToken_any_slot(t) == TakesGuard(t)

UsesToken(t) == TakesGuard(t) /\ tok[t].slot = "live"

\* arg is what the call decoded before it asked for the transaction: nothing
\* for a map call, the update for apply_update.
mutably_call(p, d, t, arg) ==
    /\ Callable(p)
    /\ t # NoTok => Born(t)
    /\ TakesGuard(t) => tokHolders[t] = {}
    /\ IF UsesToken(t)
       THEN /\ arg = <<>> => ItemBudget(tok[t].d)
            /\ pc' = [pc EXCEPT ![p] = [op |-> "mut", d |-> d, t |-> t,
                         guard |-> TRUE, txn |-> TokTxn(t), arg |-> arg]]
            /\ tokHolders' = [tokHolders EXCEPT ![t] = {p}]
            /\ UNCHANGED docWriter
            /\ Return(NoEvent)
       ELSE IF try_transact_mut(d)
       THEN /\ IF arg = <<>> THEN Budget /\ ItemBudget(d) ELSE ApplyBudget
            /\ pc' = [pc EXCEPT ![p] = [op |-> "mut", d |-> d, t |-> t,
                         guard |-> TakesGuard(t), txn |-> EphTxn(p),
                         arg |-> arg]]
            /\ tokHolders' = IF TakesGuard(t)
                             THEN [tokHolders EXCEPT ![t] = {p}]
                             ELSE tokHolders
            /\ docWriter' = [docWriter EXCEPT ![d] = EphTxn(p)]
            /\ Return(NoEvent)
       ELSE /\ Return(Event(IF arg = <<>> THEN "mut" ELSE "apply_update",
                            d, t, <<>>, TransactionError))
            /\ UNCHANGED <<pc, tokHolders, docWriter>>
    /\ UNCHANGED <<store, docReaders, log, tok, sub, alive, mailbox,
                   undoObs>>
    /\ UNCHANGED <<blocks, wire, awareness, arrays, call>>

mutably(p, d, t) == mutably_call(p, d, t, <<>>)

\* map.rs map_set / map_delete, the closure: val = NoVal is map_delete.
\* An insert always creates a new item; a remove changes the map only when
\* the key is present.
Changes(st, d, key, val) ==
    IF val = NoVal /\ st[d][key] = NoVal THEN {} ELSE {key}

\* The closure runs; an ephemeral transaction is dropped, hence committed,
\* when with_transaction_mut returns; the token's guard is released.
mutably_run(p, key, val) ==
    /\ pc[p].op = "mut"
    /\ pc[p].arg = <<>>
    /\ LET c == pc[p]
           d == TxnDoc(c)
           ch == Changes(store, d, key, val)
           st == [store EXCEPT ![d][key] = val]
       IN /\ store' = st
          /\ blocks' = [blocks EXCEPT ![d] = MapWrite(@, ClientOf(d), key, val)]
          /\ IF c.txn.kind = "tok"
             THEN /\ tok' = [tok EXCEPT ![c.t].changed = @ \cup ch,
                                           ![c.t].wrote[key] = <<val>>]
                  /\ UNCHANGED <<docWriter, log, mailbox, undoObs>>
             ELSE /\ ~Reenters({StoreLock(d)} \cup (IF c.guard
                                                      THEN {TokenLock(c.t)}
                                                      ELSE {}),
                               Firing(d, ch, NoOrigin))
                  /\ docWriter' = [docWriter EXCEPT ![d] = NoTxn]
                  /\ log' = Append(log, Committed(d, ch, Ephemeral))
                  /\ mailbox' = MailboxAfterCommit(st, d, ch, NoOrigin, TRUE)
                  /\ undoObs' = UndoAfterCommit(d, ch, NoOrigin, store[d])
                  /\ UNCHANGED tok
          /\ tokHolders' = IF c.guard
                           THEN [tokHolders EXCEPT ![c.t] = @ \ {p}]
                           ELSE tokHolders
          /\ Return(Event("mut", d, c.t, <<key, val>>, "ok"))
    /\ pc' = [pc EXCEPT ![p] = Idle]
    /\ UNCHANGED <<wire, awareness, arrays, call>>
    /\ UNCHANGED <<docReaders, sub, alive>>

\* The closure panics before it has written. The write guard of the token,
\* when the call holds it, is dropped by the unwinding, which poisons the
\* RwLock; the transaction stored in the token stays as it is; an ephemeral
\* transaction is dropped, hence committed, without changes. The host sees
\* the panic as a raised error.
mutably_panic(p) ==
    /\ pc[p].op = "mut"
    /\ LET c == pc[p]
           d == TxnDoc(c)
       IN /\ tok' = IF c.guard THEN [tok EXCEPT ![c.t].poisoned = TRUE]
                    ELSE tok
          /\ tokHolders' = IF c.guard
                           THEN [tokHolders EXCEPT ![c.t] = @ \ {p}]
                           ELSE tokHolders
          /\ IF c.txn.kind = "tok"
             THEN UNCHANGED <<docWriter, log, mailbox, undoObs>>
             ELSE /\ docWriter' = [docWriter EXCEPT ![d] = NoTxn]
                  /\ log' = Append(log, Committed(d, {}, Ephemeral))
                  /\ mailbox' = MailboxAfterCommit(store, d, {}, NoOrigin, TRUE)
                  /\ undoObs' = UndoAfterCommit(d, {}, NoOrigin, store[d])
          /\ Return(Event("mut", d, c.t, <<>>, "nif_panicked"))
    /\ pc' = [pc EXCEPT ![p] = Idle]
    /\ UNCHANGED <<store, blocks, docReaders, sub, alive, wire,
                   awareness, arrays, call>>

\* doc.rs NifDoc::readonly, up to the point where the closure is about to
\* run: the token's transaction under the read guard, else a read-only
\* transaction from with_transaction.
ReadTxn(p) == [kind |-> "ro", id |-> p]
\* a readonly that always opens an independent read-only transaction
ReadsThroughToken_never(t) == FALSE

\* the match on txn.0.read() and txn_guard.as_ref()
ReadsThroughToken(t) == TakesGuard(t) /\ tok[t].slot = "live"
\* a read lock that is granted while a writer holds the lock
Writers_unseen(t) == {}
\* RwLock: the holders of the write guard of token t
Writers(t) == {q \in tokHolders[t] : pc[q].op = "mut"}

readonly(p, d, t) ==
    /\ Callable(p)
    /\ t # NoTok => Born(t)
    /\ TakesGuard(t) => Writers(t) = {}
    /\ IF ReadsThroughToken(t)
       THEN /\ pc' = [pc EXCEPT ![p] = [op |-> "read", d |-> d, t |-> t,
                         guard |-> TRUE, txn |-> TokTxn(t), arg |-> <<>>]]
            /\ tokHolders' = [tokHolders EXCEPT ![t] = @ \cup {p}]
            /\ UNCHANGED docReaders
            /\ Return(NoEvent)
       ELSE IF try_transact(d)
       THEN /\ pc' = [pc EXCEPT ![p] = [op |-> "read", d |-> d, t |-> t,
                         guard |-> TakesGuard(t), txn |-> ReadTxn(p),
                         arg |-> <<>>]]
            /\ tokHolders' = IF TakesGuard(t)
                             THEN [tokHolders EXCEPT ![t] = @ \cup {p}]
                             ELSE tokHolders
            /\ docReaders' = [docReaders EXCEPT ![d] = @ \cup {p}]
            /\ Return(NoEvent)
       ELSE /\ Return(Event("read", d, t, <<>>, TransactionError))
            /\ UNCHANGED <<pc, tokHolders, docReaders>>
    /\ UNCHANGED <<store, docWriter, log, tok, sub, alive, mailbox, undoObs>>
    /\ UNCHANGED <<blocks, wire, awareness, arrays, call>>

\* map.rs map_get, the closure: the value of the key in the transaction's
\* store (NoVal for a missing key); the read-only transaction is dropped.
readonly_run(p, key) ==
    /\ pc[p].op = "read"
    /\ LET c == pc[p]
           d == TxnDoc(c)
       IN /\ docReaders' = IF c.txn.kind = "ro"
                           THEN [docReaders EXCEPT ![d] = @ \ {p}]
                           ELSE docReaders
          /\ tokHolders' = IF c.guard
                           THEN [tokHolders EXCEPT ![c.t] = @ \ {p}]
                           ELSE tokHolders
          /\ Return(ReadEvent(d, c.t, key, store[d][key],
                              IF store[d][key] = NestedType
                              THEN SharedTypeId_encode(
                                     Nested(Entry(blocks[d], key)))
                              ELSE <<>>))
    /\ pc' = [pc EXCEPT ![p] = Idle]
    /\ UNCHANGED <<store, docWriter, log, tok, sub, alive, mailbox, undoObs>>
    /\ UNCHANGED <<blocks, wire, awareness, arrays, call>>

\* map.rs map_size on a handle, the closure: the reference the host passed
\* was decoded when the call was made; get_ref resolves it in the
\* transaction in use, and an unresolved one raises the deleted error. A
\* nested map of this model is empty.
map_size(p, bytes) ==
    /\ pc[p].op = "read"
    /\ SharedTypeId_decode(bytes) # BadArg
    /\ LET c == pc[p]
           d == TxnDoc(c)
           hook == SharedTypeId_decode(bytes)
       IN /\ docReaders' = IF c.txn.kind = "ro"
                           THEN [docReaders EXCEPT ![d] = @ \ {p}]
                           ELSE docReaders
          /\ tokHolders' = IF c.guard
                           THEN [tokHolders EXCEPT ![c.t] = @ \ {p}]
                           ELSE tokHolders
          /\ IF Hook_get(blocks[d], hook)
             THEN Return([Event("map_size", d, c.t, <<bytes>>, "ok")
                            EXCEPT !.h = SharedTypeId_encode(hook)])
             ELSE Return(Event("map_size", d, c.t, <<bytes>>,
                               DeletedReference))
    /\ pc' = [pc EXCEPT ![p] = Idle]
    /\ UNCHANGED <<wire, awareness, arrays, call>>
    /\ UNCHANGED <<store, blocks, docWriter, log, tok, sub, alive, mailbox,
                   undoObs>>

\* -------------------------------------------------------------- observers
Subscribed(s) == sub[s].slot # "unborn"

NewSub(d, kind, pid, ref, meta) ==
    [slot |-> "active", d |-> d, kind |-> kind, pid |-> pid,
     ref_box |-> TermBox_new(ref), metadata_box |-> TermBox_new(meta),
     poisoned |-> FALSE, args |-> <<ref, meta>>, cancelled |-> FALSE]

\* event.rs shared_type_observe -> NifSharedTypeObservable::observe: inside
\* doc.readonly the branch is resolved in the transaction in use and the
\* callback is registered on it; the Subscription goes into a new
\* SubscriptionResource.
shared_type_observe(p, d, t, pid, reg) ==
    /\ Callable(p)
    /\ t # NoTok => Born(t)
    /\ TakesGuard(t) => Writers(t) = {}
    /\ IF ReadsThroughToken(t) \/ try_transact(d)
       THEN /\ \E s \in Subs : ~Subscribed(s)
            /\ LET s == NextSub
                   td == IF ReadsThroughToken(t) THEN tok[t].d ELSE d
               IN /\ sub' = [sub EXCEPT ![s] =
                       NewSub(td, "observe_event", pid, reg[1], reg[2])]
                  /\ Return(SubEvent("observe", td, s, "ok"))
       ELSE /\ Return(SubEvent("observe", d, 0, TransactionError))
            /\ UNCHANGED sub
    /\ UNCHANGED <<store, docWriter, docReaders, log, tok, tokHolders, pc,
                   alive, mailbox, undoObs>>
    /\ UNCHANGED <<blocks, wire, awareness, arrays, call>>

\* doc.rs doc_monitor_update_v1: the native observe_update_v1 needs the
\* store's lock for itself and fails without waiting when a transaction is
\* open; there is no correlation reference, only the metadata.
doc_monitor_update_v1(p, d, pid, metadata) ==
    /\ Callable(p)
    /\ IF try_transact_mut(d)
       THEN /\ \E s \in Subs : ~Subscribed(s)
            /\ LET s == NextSub
               IN /\ sub' = [sub EXCEPT ![s] =
                       NewSub(d, "update_v1", pid, "none", metadata)]
                  /\ Return(SubEvent("monitor_update", d, s, "ok"))
       ELSE /\ Return(SubEvent("monitor_update", d, 0, TransactionError))
            /\ UNCHANGED sub
    /\ UNCHANGED <<store, docWriter, docReaders, log, tok, tokHolders, pc,
                   alive, mailbox, undoObs>>
    /\ UNCHANGED <<blocks, wire, awareness, arrays, call>>

\* subscription.rs sub_unsubscribe: the guard is taken even from a poisoned
\* mutex (into_inner), the stored Subscription is replaced by None, which
\* drops it and deregisters the callback.
\* an unsubscribe that gives up on a poisoned mutex
SlotAfterUnsubscribe_unless_poisoned(s) ==
    IF sub[s].poisoned THEN sub[s].slot ELSE "empty"

\* Ok(guard) => guard, Err(poisoned) => poisoned.into_inner(); *inner = None
SlotAfterUnsubscribe(s) ==
    IF sub[s].poisoned THEN "empty" ELSE "empty"

sub_unsubscribe(p, s) ==
    /\ Callable(p)
    /\ Subscribed(s)
    /\ sub[s].slot # "released"
    /\ sub' = [sub EXCEPT ![s].slot = SlotAfterUnsubscribe(s),
                          ![s].cancelled = TRUE]
    /\ Return(SubEvent("unsubscribe", sub[s].d, s, "ok"))
    /\ UNCHANGED <<store, docWriter, docReaders, log, tok, tokHolders, pc,
                   alive, mailbox, undoObs>>
    /\ UNCHANGED <<blocks, wire, awareness, arrays, call>>

\* subscription.rs 7-9, the Resource impl without a destructor of its
\* own: when the host has let go of its last reference to the
\* SubscriptionResource the runtime drops it, and with it the Subscription
\* it still stores, which deregisters the callback. No call is made and the
\* host has no reference left to unsubscribe with.
sub_release(s) ==
    /\ Subscribed(s)
    /\ sub[s].slot # "released"
    /\ sub' = [sub EXCEPT ![s].slot = "released"]
    /\ Return(NoEvent)
    /\ UNCHANGED <<store, docWriter, docReaders, log, tok, tokHolders, pc,
                   alive, mailbox, undoObs>>
    /\ UNCHANGED <<blocks, wire, awareness, arrays, call>>

\* subscription.rs sub_unsubscribe, the Err(poisoned) arm: the state that
\* arm exists for, a thread having panicked while it held the mutex.
sub_poisoned(s) ==
    /\ Subscribed(s)
    /\ ~sub[s].poisoned
    /\ sub' = [sub EXCEPT ![s].poisoned = TRUE]
    /\ Return(NoEvent)
    /\ UNCHANGED <<store, docWriter, docReaders, log, tok, tokHolders, pc,
                   alive, mailbox, undoObs>>
    /\ UNCHANGED <<blocks, wire, awareness, arrays, call>>

\* A host process exits; it is inside no call when it does.
process_exit(p) ==
    /\ Callable(p)
    /\ \E q \in Procs \ {p} : alive[q]
    /\ alive' = [alive EXCEPT ![p] = FALSE]
    /\ Return(NoEvent)
    /\ UNCHANGED <<store, docWriter, docReaders, log, tok, tokHolders, sub,
                   pc, mailbox, undoObs>>
    /\ UNCHANGED <<blocks, wire, awareness, arrays, call>>

\* ------------------------------------------------------- undo observers
\* undo.rs undo_manager_observe_item_added: the previous registration is
\* dropped and the callback that sends through ENV is registered.
undo_manager_observe_item_added(p, observer) ==
    /\ Callable(p)
    /\ undoObs.manager
    /\ undoObs.holder = 0
    /\ undoObs' = [undoObs EXCEPT !.via = "env", !.observer = observer,
                                  !.chan = <<>>, !.thread = "none"]
    /\ Return(Event("observe_item_added", "D1", NoTok, <<>>, "ok"))
    /\ UNCHANGED <<store, docWriter, docReaders, log, tok, tokHolders, sub,
                   pc, alive, mailbox>>
    /\ UNCHANGED <<blocks, wire, awareness, arrays, call>>

\* undo_observer.rs undo_manager_observe_item_added: a channel is created,
\* a thread is spawned that forwards what it receives to the observer, and
\* the callback that feeds the channel is registered.
undo_observer_observe_item_added(p, observer) ==
    /\ Callable(p)
    /\ undoObs.manager
    /\ undoObs.holder = 0
    /\ undoObs.via = "none"
    /\ undoObs' = [undoObs EXCEPT !.via = "thread", !.observer = observer,
                                  !.chan = <<>>, !.thread = "running"]
    /\ Return(Event("observe_item_added", "D1", NoTok, <<>>, "ok"))
    /\ UNCHANGED <<store, docWriter, docReaders, log, tok, tokHolders, sub,
                   pc, alive, mailbox>>
    /\ UNCHANGED <<blocks, wire, awareness, arrays, call>>

\* undo.rs undo_manager_new_with_options: the scope's branch is resolved in
\* a read-only transaction of its own, then the manager is created on the
\* document; it tracks map "m" of D1.
undo_manager_new(p) ==
    /\ Callable(p)
    /\ ~undoObs.manager
    /\ IF try_transact("D1")
       THEN /\ undoObs' = [undoObs EXCEPT !.manager = TRUE]
            /\ Return(Event("undo_manager_new", "D1", NoTok, <<>>, "ok"))
       ELSE /\ UNCHANGED undoObs
            /\ Return(Event("undo_manager_new", "D1", NoTok, <<>>,
                            "Failed to get branch reference"))
    /\ UNCHANGED <<store, docWriter, docReaders, log, tok, tokHolders, sub,
                   pc, alive, mailbox>>
    /\ UNCHANGED <<blocks, wire, awareness, arrays, call>>

\* undo.rs undo_manager_observe_item_popped: the previous registration is
\* dropped and the callback that sends through ENV is registered.
undo_manager_observe_item_popped(p, observer) ==
    /\ Callable(p)
    /\ undoObs.manager
    /\ undoObs.holder = 0
    /\ undoObs' = [undoObs EXCEPT !.popped = observer,
                                  !.popped_thread = FALSE,
                                  !.popped_chan = <<>>]
    /\ Return(Event("observe_item_popped", "D1", NoTok, <<>>, "ok"))
    /\ UNCHANGED <<store, docWriter, docReaders, log, tok, tokHolders, sub,
                   pc, alive, mailbox>>
    /\ UNCHANGED <<blocks, wire, awareness, arrays, call>>

\* the transaction the undo manager opens to undo
UndoTxn == [kind |-> "undo", id |-> 0]

\* undo.rs, the item_popped callback's body: the event_id is read from the
\* item's metadata.
PoppedMsg(item, seq) ==
    [msg |-> <<"item_popped", item.event_id>>, sub |-> 0, seq |-> seq]
item_popped_callback(mb, item, seq) ==
    IF undoObs.popped = 0 \/ undoObs.popped_thread THEN mb
    ELSE send(mb, undoObs.popped, PoppedMsg(item, seq))

\* undo_observer.rs generate_event_id: NEXT_EVENT_ID.fetch_add gives a value
\* it has not given before. The id made for the item_popped event of
\* transaction seq is written -seq; the id of the item_added event of
\* transaction seq is written seq.
generate_event_id(seq) == -seq

\* undo_observer.rs, the item_popped callback's body: a new event id is
\* made and goes, with the event, into the channel of the delivery thread.
item_popped_enqueue(u, seq) ==
    IF u.popped # 0 /\ u.popped_thread
    THEN [u EXCEPT !.popped_chan = Append(@, generate_event_id(seq))]
    ELSE u

\* undo.rs undo_manager_undo, up to undo_blocking: the write guard of the
\* manager's RwLock is taken; with nothing to undo the call returns at once.
undo_manager_undo(p) ==
    /\ Callable(p)
    /\ undoObs.manager
    /\ undoObs.holder = 0
    /\ IF undoObs.stack = <<>>
       THEN /\ UNCHANGED <<pc, undoObs>>
            /\ Return(Event("undo", "D1", NoTok, <<>>, "ok"))
       ELSE /\ ItemBudget("D1")
            /\ pc' = [pc EXCEPT ![p] = [op |-> "undo", d |-> "D1",
                         t |-> NoTok, guard |-> FALSE, txn |-> UndoTxn,
                         arg |-> <<>>]]
            /\ undoObs' = [undoObs EXCEPT !.holder = p]
            /\ Return(NoEvent)
    /\ UNCHANGED <<store, docWriter, docReaders, log, tok, tokHolders, sub,
                   alive, mailbox>>
    /\ UNCHANGED <<blocks, wire, awareness, arrays, call>>

\* The mailboxes after the undo manager's transaction: the branch
\* observers, the manager's own hook (the undone item goes to the redo
\* stack, which fires item_added), the update observers, and after the
\* commit the item_popped callback. The manager's origin is not the
\* encoding of a term, so the messages carry nil.
MailboxAfterUndo(st, item) ==
    LET payload == Payload(st, "D1", item.changed)
        seq == clock + 1
        mb1 == RunCallbacks(mailbox, CallbackOrder("D1", "observe_event"),
                            payload, NoOrigin, seq)
        mb2 == IF undoObs.via = "env" THEN item_added_callback(mb1, seq)
               ELSE mb1
        mb3 == RunCallbacks(mb2, CallbackOrder("D1", "update_v1"), payload,
                            NoOrigin, seq)
    IN item_popped_callback(mb3, item, seq)

\* undo_blocking: waits until it can open a write transaction on the
\* document, puts back the content the last item replaced, commits, and
\* the guard of the manager is released when the call returns.
undo_blocking(p) ==
    /\ pc[p].op = "undo"
    /\ try_transact_mut("D1")
    /\ LET item == undoObs.stack[Len(undoObs.stack)]
           st == [store EXCEPT !["D1"] =
                    [k \in Keys |-> IF k \in item.changed
                                    THEN item.before[k] ELSE @[k]]]
           u == IF undoObs.via = "thread"
                THEN item_added_enqueue(clock + 1)
                ELSE undoObs
       IN /\ ~Reenters({ManagerLock, StoreLock("D1")},
                       Firing("D1", item.changed, NoOrigin)
                       \cup (IF undoObs.popped = 0 THEN {}
                             ELSE {<<"item_popped", 0>>}))
          /\ store' = st
          /\ blocks' = [blocks EXCEPT !["D1"] =
                          MapRestore(@, ClientOf("D1"), item.changed,
                                     item.before)]
          /\ log' = Append(log, Committed("D1", item.changed, UndoTxn))
          /\ mailbox' = MailboxAfterUndo(st, item)
          /\ undoObs' = [item_popped_enqueue(u, clock + 1) EXCEPT
                !.stack = SubSeq(@, 1, Len(@) - 1),
                !.redo = Append(@, StackItem(item.changed, store["D1"],
                                             clock + 1)),
                !.holder = 0]
    /\ pc' = [pc EXCEPT ![p] = Idle]
    /\ Return(Event("undo", "D1", NoTok, <<>>, "ok"))
    /\ UNCHANGED <<docWriter, docReaders, tok, tokHolders, sub, alive, wire,
                   awareness, arrays, call>>

\* rustler OwnedEnv::send_and_clear: Ok when the message was enqueued, Err
\* when the process is gone.
send_and_clear(pid) == IF alive[pid] THEN "Ok" ELSE "Err"

\* undo_observer.rs, the spawned thread: one turn of its receive loop. The
\* result of send_and_clear is unwrapped, so an Err panics the thread.
delivery_thread(thread, result) == IF result = "Ok" THEN thread ELSE "panicked"

delivery_thread_step ==
    /\ undoObs.thread = "running"
    /\ undoObs.chan # <<>>
    /\ LET seq == Head(undoObs.chan)
           result == send_and_clear(undoObs.observer)
       IN /\ mailbox' = send(mailbox, undoObs.observer, UndoMsg(seq))
          /\ undoObs' = [undoObs EXCEPT
                           !.chan = Tail(@),
                           !.thread = delivery_thread(@, result)]
    /\ Return(NoEvent)
    /\ UNCHANGED <<store, docWriter, docReaders, log, tok, tokHolders, sub,
                   pc, alive>>
    /\ UNCHANGED <<blocks, wire, awareness, arrays, call>>

\* undo_observer.rs undo_manager_observe_item_popped: a channel, a thread
\* that forwards what it receives to the observer, and the callback that
\* feeds the channel.
undo_observer_observe_item_popped(p, observer) ==
    /\ Callable(p)
    /\ undoObs.manager
    /\ undoObs.holder = 0
    /\ undoObs.popped = 0
    /\ undoObs' = [undoObs EXCEPT !.popped = observer,
                                  !.popped_thread = TRUE,
                                  !.popped_chan = <<>>]
    /\ Return(Event("observe_item_popped", "D1", NoTok, <<>>, "ok"))
    /\ UNCHANGED <<store, docWriter, docReaders, log, tok, tokHolders, sub,
                   pc, alive, mailbox>>
    /\ UNCHANGED <<blocks, wire, awareness, arrays, call>>

\* undo_observer.rs, the thread of the item_popped observer: one turn of
\* its receive loop sends (item_popped, id, event) to the observer.
popped_thread_step ==
    /\ undoObs.popped_thread
    /\ undoObs.popped_chan # <<>>
    /\ LET id == Head(undoObs.popped_chan)
       IN /\ mailbox' = send(mailbox, undoObs.popped,
                             [msg |-> <<"item_popped", id>>, sub |-> 0,
                              seq |-> -id])
          /\ undoObs' = [undoObs EXCEPT !.popped_chan = Tail(@)]
    /\ Return(NoEvent)
    /\ UNCHANGED <<store, docWriter, docReaders, log, tok, tokHolders, sub,
                   pc, alive>>
    /\ UNCHANGED <<blocks, wire, awareness, arrays, call>>

\* an unobserve that leaves the subscription where it is
Unobserved_kept(u) == u

\* undo.rs undo_manager_unobserve_item_added: item_added_observer.take(),
\* and what was taken is dropped; nothing to take is nothing to drop.
Unobserved(u) ==
    [u EXCEPT !.via = "none", !.observer = 0, !.chan = <<>>,
              !.thread = "none"]

undo_manager_unobserve_item_added(p) ==
    /\ Callable(p)
    /\ undoObs.manager
    /\ undoObs.holder = 0
    /\ undoObs' = Unobserved(undoObs)
    /\ Return(Event("unobserve_item_added", "D1", NoTok, <<>>, "ok"))
    /\ UNCHANGED <<store, docWriter, docReaders, log, tok, tokHolders, sub,
                   pc, alive, mailbox>>
    /\ UNCHANGED <<blocks, wire, awareness, arrays, call>>

\* -------------------------------------------------------------- awareness
\* The Awareness of D1 (awareness.rs awareness_new); its local client is
\* the document's. A state without data is that of a client gone offline.
LocalClient == ClientOf("D1")

\* the updates a peer can send: for some clients a state, at one clock
AwarenessUpdates ==
    UNION {[cs -> [clock : {k}, data : {NoVal, 1}]] :
             cs \in (SUBSET Clients) \ {{}}, k \in 1..MaxClock}

\* an origin that is lost on the way to the observer
awareness_origin_lost(origin) == "nil"

\* awareness.rs 132: origin.map(|origin| (*origin).to_string()); the Origin
\* was made of the bytes of the text given to apply_update_with and is
\* rendered as text again; None is nil.
awareness_origin(origin) ==
    IF origin = "nil" THEN "nil"
    ELSE LET bytes == <<"bytes", origin>> IN bytes[2]

\* awareness.rs 124-147, the callback of on_update, for every Subscription
\* still stored: the summary of the event, the origin and the awareness are
\* sent to the pid through ENV.
RECURSIVE awareness_callbacks(_, _, _, _)
awareness_callbacks(mb, order, summary, origin) ==
    IF order = <<>> THEN mb
    ELSE LET s == Head(order)
         IN awareness_callbacks(
               send(mb, sub[s].pid,
                    [msg |-> <<"awareness_update", summary,
                               awareness_origin(origin), "awareness">>,
                     sub |-> s, seq |-> 0]),
               Tail(order), summary, origin)

\* an event is triggered only when it names a client
on_update(mb, summary, origin) ==
    IF summary.added \cup summary.updated \cup summary.removed = {} THEN mb
    ELSE awareness_callbacks(mb, CallbackOrder("D1", "awareness_update"),
                             summary, origin)

\* awareness.rs awareness_monitor_update: on_update registers the callback;
\* the Subscription goes into a new SubscriptionResource.
awareness_monitor_update(p, pid) ==
    /\ Callable(p)
    /\ \E s \in Subs : ~Subscribed(s)
    /\ sub' = [sub EXCEPT ![NextSub] =
                  NewSub("D1", "awareness_update", pid, "none", "none")]
    /\ Return(SubEvent("awareness_monitor_update", "D1", NextSub, "ok"))
    /\ UNCHANGED <<store, blocks, docWriter, docReaders, log, tok,
                   tokHolders, pc, alive, mailbox, undoObs, wire, awareness,
                   arrays, call>>

\* awareness.rs awareness_set_local_state: the local client's clock goes up
\* and its state is replaced; the event names it as added when it had no
\* state and as updated otherwise.
awareness_set_local_state(p, json) ==
    /\ Callable(p)
    /\ awareness[LocalClient].clock < MaxClock
    /\ LET c == LocalClient
           new == awareness[c].data = NoVal
       IN /\ awareness' = [awareness EXCEPT ![c] =
                 [clock |-> @.clock + 1, data |-> json, known |-> TRUE]]
          /\ mailbox' = on_update(mailbox,
                                  [added |-> IF new THEN {c} ELSE {},
                                   updated |-> IF new THEN {} ELSE {c},
                                   removed |-> {}],
                                  "nil")
    /\ Return(Event("awareness_set_local_state", "D1", NoTok, <<json>>, "ok"))
    /\ UNCHANGED <<store, blocks, docWriter, docReaders, log, tok,
                   tokHolders, sub, pc, alive, undoObs, wire, arrays,
                   call>>

\* Awareness::remove_state: the client's clock goes up, its state is taken
\* away, and an event naming it as removed is triggered when it had one.
RECURSIVE remove_states(_, _, _)
remove_states(aw, mb, clients) ==
    IF clients = <<>> THEN [aw |-> aw, mb |-> mb]
    ELSE LET c == Head(clients)
             had == aw[c].data # NoVal
         IN remove_states(
               [aw EXCEPT ![c] = [clock |-> @.clock + 1, data |-> NoVal,
                                  known |-> TRUE]],
               IF had THEN on_update(mb, [added |-> {}, updated |-> {},
                                            removed |-> {c}], "nil")
               ELSE mb,
               Tail(clients))

\* awareness.rs awareness_remove_states: remove_state for every client of
\* the list, in its order.
awareness_remove_states(p, clients) ==
    /\ Callable(p)
    /\ \A i \in 1..Len(clients) : awareness[clients[i]].clock < MaxClock
    /\ LET r == remove_states(awareness, mailbox, clients)
       IN awareness' = r.aw /\ mailbox' = r.mb
    /\ Return(Event("awareness_remove_states", "D1", NoTok, <<clients>>,
                    "ok"))
    /\ UNCHANGED <<store, blocks, docWriter, docReaders, log, tok,
                   tokHolders, sub, pc, alive, undoObs, wire, arrays,
                   call>>

\* awareness.rs awareness_clean_local_state: remove_state of the local
\* client.
awareness_clean_local_state(p) ==
    /\ Callable(p)
    /\ awareness[LocalClient].clock < MaxClock
    /\ LET r == remove_states(awareness, mailbox, <<LocalClient>>)
       IN awareness' = r.aw /\ mailbox' = r.mb
    /\ Return(Event("awareness_clean_local_state", "D1", NoTok, <<>>, "ok"))
    /\ UNCHANGED <<store, blocks, docWriter, docReaders, log, tok,
                   tokHolders, sub, pc, alive, undoObs, wire, arrays,
                   call>>

\* Awareness::apply_update for one client of the update: an entry is taken
\* when the client is new, when its clock is higher, or when it has the
\* same clock and removes a state; a peer never removes the local state,
\* the local clock goes past the peer's instead.
apply_entry(st, c, e) ==
    IF ~st.known
    THEN [st |-> [clock |-> e.clock, data |-> e.data, known |-> TRUE],
          kind |-> IF e.data = NoVal THEN "none" ELSE "added"]
    ELSE IF st.clock < e.clock
            \/ (st.clock = e.clock /\ e.data = NoVal /\ st.data # NoVal)
    THEN IF e.data = NoVal
         THEN IF c = LocalClient /\ st.data # NoVal
              THEN [st |-> [st EXCEPT !.clock = e.clock + 1], kind |-> "none"]
              ELSE [st |-> [st EXCEPT !.clock = e.clock, !.data = NoVal],
                    kind |-> IF st.data # NoVal THEN "removed" ELSE "none"]
         ELSE [st |-> [st EXCEPT !.clock = e.clock, !.data = e.data],
               kind |-> IF st.data = NoVal THEN "added" ELSE "updated"]
    ELSE [st |-> st, kind |-> "none"]

\* awareness.rs awareness_apply_update_v1: the decoded update is applied
\* with the origin given, or without one; one event for the whole update.
awareness_apply_update_v1(p, update, origin) ==
    /\ Callable(p)
    /\ LET r == [c \in DOMAIN update |->
                    apply_entry(awareness[c], c, update[c])]
           of(kind) == {c \in DOMAIN update : r[c].kind = kind}
       IN /\ awareness' = [c \in Clients |->
                              IF c \in DOMAIN update THEN r[c].st
                              ELSE awareness[c]]
          /\ mailbox' = on_update(mailbox,
                                  [added |-> of("added"),
                                   updated |-> of("updated"),
                                   removed |-> of("removed")],
                                  origin)
    /\ Return(Event("awareness_apply_update_v1", "D1", NoTok,
                    <<update, origin>>, "ok"))
    /\ UNCHANGED <<store, blocks, docWriter, docReaders, log, tok,
                   tokHolders, sub, pc, alive, undoObs, wire, arrays,
                   call>>

\* ------------------------------------------------------- utils.rs, array.rs
\* TLC's integers are 32 bits wide, so the two integer types of utils.rs are
\* kept at a scaled width: u32 is an unsigned integer of Bits bits and i64 a
\* signed integer of 2 * Bits bits. Every u32 fits an i64 and an i64 need
\* not fit a u32, as in the source.
U32_MAX == 2 ^ Bits - 1
I64_MIN == -(2 ^ (2 * Bits - 1))
I64_MAX == 2 ^ (2 * Bits - 1) - 1
U32 == 0..U32_MAX
I64 == I64_MIN..I64_MAX

\* i64 addition, two's complement
wrapping_add(a, b) == ((a + b - I64_MIN) % (2 ^ (2 * Bits))) + I64_MIN
\* i64::clamp, TryFrom<i64> for u32 (<<>> is Err), Result::unwrap_or
clamp(x, lo, hi) == IF x < lo THEN lo ELSE IF x > hi THEN hi ELSE x
try_into(x) == IF x \in U32 THEN <<x>> ELSE <<>>
unwrap_or(r, default) == IF r = <<>> THEN default ELSE r[1]
\* u32::saturating_sub, u32::min
saturating_sub(a, b) == IF b > a THEN 0 ELSE a - b
min(a, b) == IF a < b THEN a ELSE b

\* an insertion index that is not capped at the length
normalize_index_for_insert_uncapped(len, index) ==
    IF index < 0
    THEN unwrap_or(try_into(wrapping_add(wrapping_add(len, index), 1)), 0)
    ELSE unwrap_or(try_into(index), U32_MAX)

\* utils.rs normalize_index_for_insert
normalize_index_for_insert(len, index) ==
    IF index < 0
    THEN unwrap_or(try_into(clamp(wrapping_add(wrapping_add(len, index), 1),
                                  0, len)), 0)
    ELSE unwrap_or(try_into(clamp(index, 0, len)), 0)

\* utils.rs normalize_index
normalize_index(len, index) ==
    IF index < 0
    THEN unwrap_or(try_into(wrapping_add(len, index)), U32_MAX)
    ELSE unwrap_or(try_into(index), U32_MAX)

\* a cap that forgets what is left of the collection after the index
capped_index_and_length_uncapped(target_len, index_i64, length) ==
    LET index == normalize_index(target_len, index_i64)
    IN IF length = 0 THEN <<>> ELSE <<index, length>>

\* utils.rs capped_index_and_length: <<>> is None, <<i, n>> is Some((i, n))
capped_index_and_length(target_len, index_i64, length) ==
    LET index == normalize_index(target_len, index_i64)
        remaining == saturating_sub(target_len, index)
        actual_length == min(length, remaining)
    IN IF actual_length = 0 THEN <<>> ELSE <<index, actual_length>>

\* the calls of the utils.rs functions on arguments of the whole range of
\* their types
Calls(fn) ==
    [fn : {fn}, len : U32, index : I64,
     length : IF fn = "capped_index_and_length" THEN U32 ELSE {0},
     out : {<<>>}]
utils_call(fn) ==
    /\ call # NoCall
    /\ call.fn = fn
    /\ call.out = <<>>
    /\ call' = [call EXCEPT !.out =
          IF fn = "normalize_index_for_insert"
          THEN <<normalize_index_for_insert(call.len, call.index)>>
          ELSE <<capped_index_and_length(call.len, call.index,
                                         call.length)>>]
    /\ UNCHANGED <<store, blocks, docWriter, docReaders, log, tok,
                   tokHolders, sub, pc, alive, mailbox, undoObs, ev, wire,
                   awareness, arrays, trace>>

\* The elements of the nested array whose item is id, in document d. An
\* array starts empty, and the id of an item is never given to another.
ArrayOf(d, id) == IF id \in DOMAIN arrays[d] THEN arrays[d][id] ELSE <<>>
\* an insertion that always appends
InsertAt_end(seq, i, v) == Append(seq, v)

\* yrs Array::insert: the element goes in at the zero-based index i
InsertAt(seq, i, v) == SubSeq(seq, 1, i) \o <<v>> \o SubSeq(seq, i + 1, Len(seq))
RemoveRange(seq, i, n) == SubSeq(seq, 1, i) \o SubSeq(seq, i + n + 1, Len(seq))
\* yrs Array::get: the element at a zero-based index, <<>> for None
Array_get(seq, i) == IF i < Len(seq) THEN <<seq[i + 1]>> ELSE <<>>

\* the item of the array a subscription made through a handle observes
Target(s) ==
    IF Len(sub[s].args) = 3 THEN SharedTypeId_decode(sub[s].args[3]).id
    ELSE NoId

\* The observers a change of the array id of document d calls, in the order
\* of the commit: the observers of the array, the deep observers of the
\* array, the observers of the document's updates.
ArrayCallbackOrder(d, id) ==
    SortedSeq({s \in Subs : Registered(s, d) /\ sub[s].kind = "observe"
                              /\ Target(s) = id})
    \o SortedSeq({s \in Subs : Registered(s, d)
                                 /\ sub[s].kind = "observe_deep"
                                 /\ Target(s) = id})
    \o CallbackOrder(d, "update_v1")

\* event.rs, doc.rs: the callbacks; each sends one message to its process.
RECURSIVE array_callbacks(_, _, _, _)
array_callbacks(mb, order, update, seq) ==
    IF order = <<>> THEN mb
    ELSE LET s == Head(order)
             ref == TermBox_get(sub[s].ref_box)
             metadata == TermBox_get(sub[s].metadata_box)
             m == IF sub[s].kind = "observe"
                  THEN <<"observe_event", ref, update,
                         origin_to_term(NoOrigin), metadata>>
                  ELSE IF sub[s].kind = "observe_deep"
                  THEN <<"observe_deep_event", ref, <<update>>,
                         origin_to_term(NoOrigin), metadata>>
                  ELSE <<"update_v1", update, origin_to_term(NoOrigin),
                         metadata>>
         IN array_callbacks(send(mb, sub[s].pid,
                                 [msg |-> m, sub |-> s, seq |-> seq]),
                            Tail(order), update, seq)

\* The end of a call of a NifArray through NifDoc::mutably, whose closure
\* leaves the array of the handle with the elements elems and returns res.
\* A token's transaction stays open. An ephemeral transaction is committed
\* when the closure returns, whatever it returns: a transaction that
\* changed the array calls the observers of the array and of the updates;
\* the observers of the map at the root are not called for a change below
\* it. (A change of an array through a token, and one in the scope of an
\* undo manager, are not in this model: the token and the undo stack of
\* the model keep the keys of the root map only.)
array_mutably(p, bytes, elems, e) ==
    LET c == pc[p]
        d == TxnDoc(c)
        id == SharedTypeId_decode(bytes).id
        changed == elems # ArrayOf(d, id)
        update == [i \in {id} |-> elems]
        order == ArrayCallbackOrder(d, id)
    IN /\ changed => c.txn.kind = "eph" /\ ~undoObs.manager
       /\ arrays' = IF changed
                    THEN [arrays EXCEPT ![d] =
                            [i \in DOMAIN @ \cup {id} |->
                                IF i = id THEN elems ELSE @[i]]]
                    ELSE arrays
       /\ tokHolders' = IF c.guard
                        THEN [tokHolders EXCEPT ![c.t] = @ \ {p}]
                        ELSE tokHolders
       /\ IF c.txn.kind = "tok"
          THEN UNCHANGED <<docWriter, log, mailbox>>
          ELSE /\ changed =>
                    ~Reenters({StoreLock(d)} \cup (IF c.guard
                                                     THEN {TokenLock(c.t)}
                                                     ELSE {}),
                              {<<"update_v1", order[n]>> :
                                  n \in 1..Len(order)})
               /\ docWriter' = [docWriter EXCEPT ![d] = NoTxn]
               /\ log' = Append(log, Committed(d, IF changed THEN {id}
                                                  ELSE {}, Ephemeral))
               /\ mailbox' = IF changed
                             THEN array_callbacks(mailbox, order, update,
                                                  clock + 1)
                             ELSE mailbox
       /\ Return(e)
       /\ pc' = [pc EXCEPT ![p] = Idle]
       /\ UNCHANGED <<store, blocks, docReaders, tok, sub, alive, undoObs,
                      wire, awareness, call>>

\* the handle of an array is the handle of a nested type
ArrayCall(p, bytes) ==
    /\ pc[p].op = "mut"
    /\ pc[p].arg = <<>>
    /\ SharedTypeId_decode(bytes).tag = "Nested"

\* array.rs array_insert: get_ref, or the call ends with the error of
\* deleted_error before anything is written; then the insertion at the
\* normalized index.
array_insert(p, bytes, index, value) ==
    /\ ArrayCall(p, bytes)
    /\ LET d == TxnDoc(pc[p])
           hook == SharedTypeId_decode(bytes)
           array == ArrayOf(d, hook.id)
           i == normalize_index_for_insert(Len(array), index)
       IN IF Hook_get(blocks[d], hook)
          THEN /\ Len(array) < MaxElems
               /\ array_mutably(p, bytes, InsertAt(array, i, value),
                     Event("array_insert", d, pc[p].t,
                           <<bytes, index, value>>, "ok"))
          ELSE array_mutably(p, bytes, array,
                     Event("array_insert", d, pc[p].t,
                           <<bytes, index, value>>, DeletedReference))

\* array.rs array_insert_and_get: as array_insert, then Array::get at the
\* same index, unwrapped: the NIF panics on None.
array_insert_and_get(p, bytes, index, value) ==
    /\ ArrayCall(p, bytes)
    /\ LET d == TxnDoc(pc[p])
           hook == SharedTypeId_decode(bytes)
           array == ArrayOf(d, hook.id)
           i == normalize_index_for_insert(Len(array), index)
           elems == InsertAt(array, i, value)
           got == Array_get(elems, i)
       IN IF Hook_get(blocks[d], hook)
          THEN /\ Len(array) < MaxElems
               /\ array_mutably(p, bytes, elems,
                     [Event("array_insert_and_get", d, pc[p].t,
                            <<bytes, index, value>>,
                            IF got = <<>> THEN "nif_panicked" ELSE "ok")
                        EXCEPT !.val = unwrap_or(got, NoVal)])
          ELSE array_mutably(p, bytes, array,
                     Event("array_insert_and_get", d, pc[p].t,
                           <<bytes, index, value>>, DeletedReference))

\* array.rs array_delete_range: get_ref, then remove_range of what
\* capped_index_and_length gives, if it gives anything; ok either way.
array_delete_range(p, bytes, index, length) ==
    /\ ArrayCall(p, bytes)
    /\ LET d == TxnDoc(pc[p])
           hook == SharedTypeId_decode(bytes)
           array == ArrayOf(d, hook.id)
           capped_len == capped_index_and_length(Len(array), index, length)
       IN IF Hook_get(blocks[d], hook)
          THEN array_mutably(p, bytes,
                     IF capped_len = <<>> THEN array
                     ELSE RemoveRange(array, capped_len[1], capped_len[2]),
                     Event("array_delete_range", d, pc[p].t,
                           <<bytes, index, length>>, "ok"))
          ELSE array_mutably(p, bytes, array,
                     Event("array_delete_range", d, pc[p].t,
                           <<bytes, index, length>>, DeletedReference))

\* a registration that does not wait for the closure's result
Observed_anyway(sb, s, res, new) == [sb EXCEPT ![s] = new]

\* event.rs observe, observe_deep: the closure given to NifDoc::readonly
\* calls get_ref first and registers the callback after it, and
\* SubscriptionResource is made of the subscription: there is one only
\* when the closure has run and has returned Ok.
Observed(sb, s, res, new) == IF res = "ok" THEN [sb EXCEPT ![s] = new] ELSE sb

\* event.rs observe and observe_deep of a NifArray, under
\* shared_type_observe and shared_type_observe_deep: NifDoc::readonly, then
\* get_ref, then Observable::observe / DeepObservable::observe_deep.
array_observe(p, d, t, bytes, pid, reg, kind) ==
    /\ Callable(p)
    /\ t # NoTok => Born(t)
    /\ TakesGuard(t) => Writers(t) = {}
    /\ SharedTypeId_decode(bytes).tag = "Nested"
    /\ \E s \in Subs : ~Subscribed(s)
    /\ LET s == NextSub
           td == IF ReadsThroughToken(t) THEN tok[t].d ELSE d
           res == IF ~(ReadsThroughToken(t) \/ try_transact(d))
                  THEN TransactionError
                  ELSE IF ~Hook_get(blocks[td], SharedTypeId_decode(bytes))
                  THEN DeletedReference
                  ELSE "ok"
       IN /\ sub' = Observed(sub, s, res,
                       [NewSub(td, kind, pid, reg[1], reg[2])
                          EXCEPT !.args = <<reg[1], reg[2], bytes>>])
          /\ Return([SubEvent(kind, td, IF res = "ok" THEN s ELSE 0, res)
                       EXCEPT !.arg = <<bytes>>])
    /\ UNCHANGED <<store, blocks, docWriter, docReaders, log, tok,
                   tokHolders, pc, alive, mailbox, undoObs, wire, awareness,
                   arrays, call>>

observe(p, d, t, bytes, pid, reg) ==
    array_observe(p, d, t, bytes, pid, reg, "observe")
observe_deep(p, d, t, bytes, pid, reg) ==
    array_observe(p, d, t, bytes, pid, reg, "observe_deep")

\* ---------------------------------------------------------- specifications
\* Spec: the transaction lifecycle on one document.
Next ==
    \/ \E p \in Procs : doc_begin_transaction(p, "D1", "nil")
    \/ \E p \in Procs, t \in Tokens : commit_transaction(p, t)
    \/ \E p \in Procs, t \in Tokens \cup {NoTok} : mutably(p, "D1", t)
    \/ \E p \in Procs, k \in Keys, v \in Vals \cup {NoVal} : mutably_run(p, k, v)
    \/ \E p \in Procs, t \in Tokens \cup {NoTok} : readonly(p, "D1", t)
    \/ \E p \in Procs, k \in Keys : readonly_run(p, k)

Spec == Init /\ [][Next]_vars

\* SpecDocs: the transaction lifecycle on two documents.
NextDocs ==
    \/ \E p \in Procs, d \in Docs : doc_begin_transaction(p, d, "nil")
    \/ \E p \in Procs, t \in Tokens : commit_transaction(p, t)
    \/ \E p \in Procs, d \in Docs, t \in Tokens \cup {NoTok} : mutably(p, d, t)
    \/ \E p \in Procs, k \in Keys, v \in Vals \cup {NoVal} : mutably_run(p, k, v)
    \/ \E p \in Procs, d \in Docs, t \in Tokens \cup {NoTok} : readonly(p, d, t)
    \/ \E p \in Procs, k \in Keys : readonly_run(p, k)

SpecDocs == InitQuiet /\ [][NextDocs]_vars

\* The caller subscribes itself, with the terms of the next registration.
NextReg == {Registration(s) : s \in {u \in Subs : ~Subscribed(u)
                                      /\ \A v \in Subs : v < u => Subscribed(v)}}

\* SpecObs: observers of one document, with ephemeral transactions and one
\* explicit transaction at a time.
NextObs ==
    \/ \E p \in Procs, o \in Origins :
          /\ \A t \in Tokens : tok[t].slot # "live"
          /\ doc_begin_transaction(p, "D1", o)
    \/ \E p \in Procs, t \in Tokens : commit_transaction(p, t)
    \/ \E p \in Procs, t \in Tokens \cup {NoTok} : mutably(p, "D1", t)
    \/ \E p \in Procs, k \in Keys, v \in {1, NoVal} : mutably_run(p, k, v)
    \/ \E reg \in NextReg : shared_type_observe(1, "D1", NoTok, 1, reg)
    \/ \E reg \in NextReg : doc_monitor_update_v1(1, "D1", 1, reg[2])
    \/ \E p \in Procs, s \in Subs : sub_unsubscribe(p, s)

SpecObs == InitQuiet /\ [][NextObs]_vars

\* SpecTok: observers of one document that is written through tokens, live
\* or committed, with and without origin.
NextTokens ==
    \/ \E p \in Procs, o \in Origins : doc_begin_transaction(p, "D1", o)
    \/ \E p \in Procs, t \in Tokens : commit_transaction(p, t)
    \/ \E p \in Procs, t \in Tokens : mutably(p, "D1", t)
    \/ \E p \in Procs, k \in Keys, v \in {1, NoVal} : mutably_run(p, k, v)
    \/ \E reg \in NextReg : shared_type_observe(1, "D1", NoTok, 1, reg)
    \/ \E reg \in NextReg : doc_monitor_update_v1(1, "D1", 1, reg[2])

SpecTok == Init /\ [][NextTokens]_vars

\* SpecAtomic: one observed document that is written through tokens and
\* read with and without them.
NextAtomic ==
    \/ \E p \in Procs, o \in Origins : doc_begin_transaction(p, "D1", o)
    \/ \E p \in Procs, t \in Tokens : commit_transaction(p, t)
    \/ \E p \in Procs, t \in Tokens : mutably(p, "D1", t)
    \/ \E p \in Procs, k \in Keys, v \in {1, NoVal} : mutably_run(p, k, v)
    \/ \E p \in Procs, t \in Tokens \cup {NoTok} : readonly(p, "D1", t)
    \/ \E p \in Procs, k \in Keys : readonly_run(p, k)
    \/ \E reg \in NextReg : /\ sub[1].slot = "unborn"
                            /\ shared_type_observe(1, "D1", NoTok, 1, reg)

SpecAtomic == Init /\ [][NextAtomic]_vars

\* SpecAware: the awareness of one document with its observers, local
\* states and a peer's updates, until the observing process has got
\* MaxCommits messages.
AwareBudget == Len(mailbox[1]) < MaxCommits
NextAware ==
    \/ awareness_monitor_update(1, 1)
    \/ \E v \in Vals : AwareBudget /\ awareness_set_local_state(1, v)
    \/ AwareBudget /\ awareness_clean_local_state(1)
    \/ \E cs \in {<<2>>, <<2, 1>>} :
          AwareBudget /\ awareness_remove_states(1, cs)
    \/ \E u \in AwarenessUpdates, o \in Origins :
          AwareBudget /\ awareness_apply_update_v1(2, u, o)

SpecAware == InitQuiet /\ [][NextAware]_vars

\* SpecRelease: observers of one document and of its awareness whose
\* subscriptions the host unsubscribes or lets go of.
NextRelease ==
    \/ mutably(1, "D1", NoTok)
    \/ \E k \in Keys, v \in {1, NoVal} : mutably_run(1, k, v)
    \/ \E reg \in NextReg : shared_type_observe(1, "D1", NoTok, 1, reg)
    \/ awareness_monitor_update(1, 1)
    \/ awareness_set_local_state(1, 1)
    \/ \E s \in Subs : sub_unsubscribe(1, s)
    \/ \E s \in Subs : sub_release(s)

SpecRelease == InitQuiet /\ [][NextRelease]_vars

\* SpecDrop: one observed document that is written with and without
\* tokens, which the host commits or lets go of.
NextDrop ==
    \/ \E p \in Procs, o \in Origins : doc_begin_transaction(p, "D1", o)
    \/ \E p \in Procs, t \in Tokens :
          tok[t].slot # "released" /\ commit_transaction(p, t)
    \/ \E p \in Procs, t \in Tokens \cup {NoTok} :
          /\ t # NoTok => tok[t].slot # "released"
          /\ mutably(p, "D1", t)
    \/ \E p \in Procs, k \in Keys, v \in {1, NoVal} : mutably_run(p, k, v)
    \/ \E reg \in NextReg : /\ sub[1].slot = "unborn"
                            /\ shared_type_observe(1, "D1", NoTok, 1, reg)
    \/ \E t \in Tokens : token_release(t)

SpecDrop == Init /\ [][NextDrop]_vars

\* SpecIndep: two documents, one of them observed, with tokens and
\* token-less reads and mutations on both.
NextIndep ==
    \/ \E p \in Procs, d \in Docs : doc_begin_transaction(p, d, "nil")
    \/ \E p \in Procs, t \in Tokens : commit_transaction(p, t)
    \/ \E p \in Procs, d \in Docs, t \in Tokens \cup {NoTok} :
          mutably(p, d, t)
    \/ \E p \in Procs, k \in Keys : mutably_run(p, k, 1)
    \/ \E p \in Procs, d \in Docs : readonly(p, d, NoTok)
    \/ \E p \in Procs, k \in Keys : readonly_run(p, k)
    \/ \E reg \in NextReg : /\ sub[1].slot = "unborn"
                            /\ shared_type_observe(1, "D2", NoTok, 1, reg)

SpecIndep == Init /\ [][NextIndep]_vars

\* SpecPoison: tokens whose lock a panicking call may poison
NextPoison ==
    \/ \E p \in Procs : doc_begin_transaction(p, "D1", "nil")
    \/ \E p \in Procs, t \in Tokens : commit_transaction(p, t)
    \/ \E p \in Procs, t \in Tokens \cup {NoTok} : mutably(p, "D1", t)
    \/ \E p \in Procs, k \in Keys, v \in {1, NoVal} : mutably_run(p, k, v)
    \/ \E p \in Procs : mutably_panic(p)

SpecPoison == Init /\ [][NextPoison]_vars

\* SpecSub: subscriptions whose mutex may get poisoned, with ephemeral
\* transactions on one document.
NextSubs ==
    \/ \E p \in Procs : mutably(p, "D1", NoTok)
    \/ \E p \in Procs, k \in Keys, v \in {1, NoVal} : mutably_run(p, k, v)
    \/ \E p \in Procs, reg \in NextReg :
          shared_type_observe(p, "D1", NoTok, 1, reg)
    \/ \E p \in Procs, reg \in NextReg :
          doc_monitor_update_v1(p, "D1", 1, reg[2])
    \/ \E p \in Procs, s \in Subs : sub_unsubscribe(p, s)
    \/ \E s \in Subs : sub_poisoned(s)

SpecSub == Init /\ [][NextSubs]_vars

\* SpecUndo: the undo manager of one document with its observers, the
\* document's observers, ephemeral transactions and one explicit
\* transaction.
NextUndo ==
    \/ \E p \in Procs : undo_manager_new(p)
    \/ \E p \in Procs :
          /\ \A t \in Tokens : ~Born(t)
          /\ doc_begin_transaction(p, "D1", "nil")
    \/ \E p \in Procs, t \in Tokens : commit_transaction(p, t)
    \/ \E p \in Procs, t \in Tokens \cup {NoTok} : mutably(p, "D1", t)
    \/ \E p \in Procs, k \in Keys, v \in {1, NoVal} : mutably_run(p, k, v)
    \/ \E reg \in NextReg : shared_type_observe(1, "D1", NoTok, 1, reg)
    \/ \E reg \in NextReg : doc_monitor_update_v1(1, "D1", 1, reg[2])
    \/ undo_manager_observe_item_added(1, 1)
    \/ undo_manager_observe_item_popped(1, 1)
    \/ \E p \in Procs : undo_manager_undo(p)
    \/ \E p \in Procs : undo_blocking(p)

SpecUndo == InitQuiet /\ [][NextUndo]_vars

\* the references a host can hold
\* error.rs: the tag of the error term of a decoding failure
EncodingException == "encoding_exception"
Versions == {"v1", "v2"}

\* doc.rs encode_state_as_update_v1 / _v2 without a state vector, the
\* closure under NifDoc::readonly: the difference to the empty state vector
\* is encoded and handed to the host.
encode_state_as_update_run(p, ver) ==
    /\ pc[p].op = "read"
    /\ LET c == pc[p]
           d == TxnDoc(c)
           bytes == Update_encode(ver, encode_diff(blocks[d],
                                                   StateVector_default))
       IN /\ docReaders' = IF c.txn.kind = "ro"
                           THEN [docReaders EXCEPT ![d] = @ \ {p}]
                           ELSE docReaders
          /\ tokHolders' = IF c.guard
                           THEN [tokHolders EXCEPT ![c.t] = @ \ {p}]
                           ELSE tokHolders
          /\ wire' = bytes
          /\ UNCHANGED <<awareness, arrays, call>>
          /\ Return(Event("encode_state_as_update", d, c.t, <<ver>>, "ok"))
    /\ pc' = [pc EXCEPT ![p] = Idle]
    /\ UNCHANGED <<store, blocks, docWriter, log, tok, sub, alive, mailbox,
                   undoObs>>

\* the host cuts the binary it holds short
wire_truncate ==
    /\ Len(wire) = 3
    /\ wire' = SubSeq(wire, 1, Len(wire) - 1)
    /\ UNCHANGED <<awareness, arrays, call>>
    /\ Return(NoEvent)
    /\ UNCHANGED <<store, blocks, docWriter, docReaders, log, tok, tokHolders,
                   sub, pc, alive, mailbox, undoObs>>

\* doc.rs apply_update_v1 / _v2 up to the closure: the bytes are decoded
\* first, and a decoding error returns before NifDoc::mutably is entered.
apply_update(p, d, t, ver) ==
    LET r == Update_decode(ver, wire)
    IN IF r.ok
       THEN mutably_call(p, d, t, <<r.update>>)
       ELSE /\ Callable(p)
            /\ t # NoTok => Born(t)
            /\ Return([Event("apply_update", d, t, <<ver>>,
                              EncodingException) EXCEPT !.msg = r.msg])
            /\ UNCHANGED <<store, blocks, docWriter, docReaders, log, tok,
                           tokHolders, sub, pc, alive, mailbox, undoObs,
                           wire, awareness, arrays, call>>

\* the keys whose entry or content differs between two block stores
ChangedKeys(b1, b2) ==
    {k \in Keys : Entry(b1, k) # Entry(b2, k) \/ Value(b1, k) # Value(b2, k)}

\* The closure of apply_update: txn.apply_update(update); an ephemeral
\* transaction is committed when with_transaction_mut returns.
apply_update_run(p) ==
    /\ pc[p].op = "mut"
    /\ pc[p].arg # <<>>
    /\ LET c == pc[p]
           d == TxnDoc(c)
           b == ApplyUpdate(blocks[d], c.arg[1])
           ch == ChangedKeys(blocks[d], b)
           st == [store EXCEPT ![d] = Projection(b)]
       IN /\ store' = st
          /\ blocks' = [blocks EXCEPT ![d] = b]
          /\ IF c.txn.kind = "tok"
             THEN /\ tok' = [tok EXCEPT ![c.t].changed = @ \cup ch,
                                ![c.t].wrote = [k \in Keys |->
                                    IF k \in ch THEN <<st[d][k]>> ELSE @[k]]]
                  /\ UNCHANGED <<docWriter, log, mailbox, undoObs>>
             ELSE /\ ~Reenters({StoreLock(d)} \cup (IF c.guard
                                                      THEN {TokenLock(c.t)}
                                                      ELSE {}),
                               Firing(d, ch, NoOrigin))
                  /\ docWriter' = [docWriter EXCEPT ![d] = NoTxn]
                  /\ log' = Append(log, Committed(d, ch, Ephemeral))
                  /\ mailbox' = MailboxAfterCommit(st, d, ch, NoOrigin, TRUE)
                  /\ undoObs' = UndoAfterCommit(d, ch, NoOrigin, store[d])
                  /\ UNCHANGED tok
          /\ tokHolders' = IF c.guard
                           THEN [tokHolders EXCEPT ![c.t] = @ \ {p}]
                           ELSE tokHolders
          /\ Return(Event("apply_update", d, c.t, <<>>, "ok"))
    /\ pc' = [pc EXCEPT ![p] = Idle]
    /\ UNCHANGED <<docReaders, sub, alive, wire,
                   awareness, arrays, call>>

\* SpecWire: state is carried from one document to the other as updates.
NextWire ==
    \/ \E d \in Docs : mutably(1, d, NoTok)
    \/ \E k \in Keys, v \in {ClientOf(pc[1].d), NoVal} : mutably_run(1, k, v)
    \/ \E d \in Docs : readonly(1, d, NoTok)
    \/ \E ver \in Versions : encode_state_as_update_run(1, ver)
    \/ \E d \in Docs, ver \in Versions : apply_update(1, d, NoTok, ver)
    \/ apply_update_run(1)

SpecWire == Init /\ [][NextWire]_vars

\* SpecCut: updates of D1, whole or cut short, are applied to D2, which is
\* observed and which another process writes through a token.
NextCut ==
    \/ (\A t \in Tokens : ~Born(t)) /\ doc_begin_transaction(2, "D2", "nil")
    \/ \E t \in Tokens : commit_transaction(2, t)
    \/ mutably(1, "D1", NoTok)
    \/ \E k \in Keys, v \in {1, NoVal} : mutably_run(1, k, v)
    \/ readonly(1, "D1", NoTok)
    \/ \E ver \in Versions : encode_state_as_update_run(1, ver)
    \/ \E t \in Tokens \cup {NoTok}, ver \in Versions :
          apply_update(1, "D2", t, ver)
    \/ apply_update_run(1)
    \/ wire_truncate
    \/ \E reg \in NextReg :
          /\ sub[1].slot = "unborn"
          /\ shared_type_observe(1, "D2", NoTok, 1, reg)

SpecCut == Init /\ [][NextCut]_vars

\* ------------------------------------------------------ error conversions
\* error.rs enum Error: the variants, the last four with their diagnostic
Diagnostics ==
    {EndOfBuffer, "Unexpected structure", "Failed to acquire write lock"}
    \cup {"Unexpected tag value: " \o ToString(n) : n \in 0..MaxByte}
ErrorOf(variant, msg) == [variant |-> variant, msg |-> msg]
Errors ==
    {ErrorOf("TransactionError", "")}
    \cup {ErrorOf(v, m) :
            v \in {"UpdateError", "EncodingError", "AwarenessError", "Message"},
            m \in Diagnostics}
    \cup {ErrorOf("RustlerError", m) : m \in {"badarg", "Map has been deleted"}}

\* what the host is handed: an atom and a message, either of which may be
\* missing; Untagged stands for a term that is the message alone
Untagged == "error"
HostError(tag, msg) == [res |-> tag, msg |-> msg]

\* a conversion that gives every error a kind tag and a message
Error_into_rustler_tagged(err) ==
    IF err.variant = "TransactionError"
    THEN HostError(TransactionError, "transaction could not be acquired")
    ELSE IF err.variant = "RustlerError"
    THEN IF err.msg = "badarg" THEN HostError("badarg", "")
         ELSE HostError(DeletedReference, err.msg)
    ELSE HostError(EncodingException, err.msg)

\* error.rs From<Error> for rustler::Error: the conflict is the atom alone,
\* the decoding error the pair of encoding_exception and the diagnostic,
\* an update, awareness or message error the diagnostic alone; a rustler
\* error is passed on as it is (badarg, or the raised deleted error).
Error_into_rustler(err) ==
    IF err.variant = "TransactionError" THEN HostError(TransactionError, "")
    ELSE IF err.variant = "EncodingError"
    THEN HostError(EncodingException, err.msg)
    ELSE IF err.variant = "RustlerError"
    THEN IF err.msg = "badarg" THEN HostError("badarg", "")
         ELSE HostError(DeletedReference, err.msg)
    ELSE HostError(Untagged, err.msg)

\* error.rs Encoder for Error, for the variants it encodes: the same terms,
\* all but the conflict inside an {error, _} pair.
Error_encode(err) ==
    IF err.variant = "TransactionError" THEN HostError(TransactionError, "")
    ELSE IF err.variant = "EncodingError"
    THEN HostError(EncodingException, err.msg)
    ELSE HostError(Untagged, err.msg)

\* a call that returns NifResult ends in Err(err.into())
nif_return(p, err) ==
    /\ Callable(p)
    /\ LET e == Error_into_rustler(err)
       IN Return([Event("nif_return", "D1", NoTok, <<err.variant>>, e.res)
                    EXCEPT !.msg = e.msg])
    /\ UNCHANGED <<store, blocks, docWriter, docReaders, log, tok, tokHolders,
                   sub, pc, alive, mailbox, undoObs, wire,
                   awareness, arrays, call>>

\* ------------------------------------------------------------ sync frames
\* yrs::sync::protocol: the tags of the messages, of the sync sub-messages
\* and of the auth replies
MSG_SYNC == 0
MSG_AWARENESS == 1
MSG_AUTH == 2
MSG_QUERY_AWARENESS == 3
MSG_SYNC_STEP_1 == 0
MSG_SYNC_STEP_2 == 1
MSG_SYNC_UPDATE == 2
PERMISSION_DENIED == 0
PERMISSION_GRANTED == 1

\* A frame is a sequence of bytes; every byte of the model is below 128, so
\* a variable-length integer is one byte.
Bytes == 0..MaxByte
RECURSIVE FramesOfLen(_)
FramesOfLen(n) ==
    IF n = 0 THEN {<<>>}
    ELSE {Append(f, b) : f \in FramesOfLen(n - 1), b \in Bytes}
Frames == UNION {FramesOfLen(n) : n \in 0..MaxFrameLen}

\* Decoder::read_var: the next integer and the rest, or the read error
read_var(bytes) ==
    IF bytes = <<>>
    THEN [ok |-> FALSE, v |-> 0, buf |-> <<>>, rest |-> <<>>]
    ELSE [ok |-> TRUE, v |-> Head(bytes), buf |-> <<>>, rest |-> Tail(bytes)]
\* Decoder::read_buf / read_string: a length and that many bytes
read_buf(bytes) ==
    IF bytes = <<>> \/ Len(bytes) - 1 < Head(bytes)
    THEN [ok |-> FALSE, v |-> 0, buf |-> <<>>, rest |-> <<>>]
    ELSE [ok |-> TRUE, v |-> 0, buf |-> SubSeq(bytes, 2, 1 + Head(bytes)),
          rest |-> SubSeq(bytes, 2 + Head(bytes), Len(bytes))]

\* the decoded terms and the errors
Decoded(kind, inner, tag, data) ==
    [ok |-> TRUE, kind |-> kind, sub |-> inner, tag |-> tag, data |-> data,
     variant |-> "", msg |-> ""]
\* `?` on a read of the decoder: From<yrs::encoding::read::Error> for Error
ReadError ==
    [ok |-> FALSE, kind |-> "error", sub |-> "", tag |-> 0, data |-> <<>>,
     variant |-> "EncodingError", msg |-> EndOfBuffer]
\* NifError::Message(msg)
MessageError(msg) ==
    [ok |-> FALSE, kind |-> "error", sub |-> "", tag |-> 0, data |-> <<>>,
     variant |-> "Message", msg |-> msg]
UnexpectedTag(tag) == "Unexpected tag value: " \o ToString(tag)

\* a sub-message decoder that lets unknown tags through as custom messages
decode_sync_message_custom(bytes) ==
    LET tag == read_var(bytes)
        buf == read_buf(tag.rest)
        name == IF tag.v = MSG_SYNC_STEP_1 THEN "sync_step1"
                ELSE IF tag.v = MSG_SYNC_STEP_2 THEN "sync_step2"
                ELSE IF tag.v = MSG_SYNC_UPDATE THEN "sync_update"
                ELSE "custom"
    IN IF ~tag.ok \/ ~buf.ok THEN ReadError
       ELSE Decoded("sync", name, tag.v, buf.buf)

\* sync.rs decode_sync_message
decode_sync_message(bytes) ==
    LET tag == read_var(bytes)
        buf == read_buf(tag.rest)
    IN IF ~tag.ok THEN ReadError
       ELSE IF tag.v \in {MSG_SYNC_STEP_1, MSG_SYNC_STEP_2, MSG_SYNC_UPDATE}
       THEN IF ~buf.ok THEN ReadError
            ELSE Decoded("sync",
                         IF tag.v = MSG_SYNC_STEP_1 THEN "sync_step1"
                         ELSE IF tag.v = MSG_SYNC_STEP_2 THEN "sync_step2"
                         ELSE "sync_update",
                         tag.v, buf.buf)
       ELSE MessageError(UnexpectedTag(tag.v))

\* a dispatcher that refuses the tags it does not know
decode_message_strict(bytes) ==
    LET tag == read_var(bytes)
        buf == read_buf(tag.rest)
        perm == read_var(tag.rest)
        reason == read_buf(perm.rest)
    IN IF ~tag.ok THEN ReadError
       ELSE IF tag.v = MSG_SYNC THEN decode_sync_message(tag.rest)
       ELSE IF tag.v = MSG_AWARENESS
       THEN IF ~buf.ok THEN ReadError
            ELSE Decoded("awareness", "", tag.v, buf.buf)
       ELSE IF tag.v = MSG_AUTH
       THEN IF ~perm.ok THEN ReadError
            ELSE IF perm.v = PERMISSION_DENIED
            THEN IF ~reason.ok THEN ReadError
                 ELSE Decoded("auth", "denied", tag.v, reason.buf)
            ELSE Decoded("auth", "granted", tag.v, <<>>)
       ELSE IF tag.v = MSG_QUERY_AWARENESS
       THEN Decoded("query_awareness", "", tag.v, <<>>)
       ELSE MessageError(UnexpectedTag(tag.v))

\* sync.rs decode_message
decode_message(bytes) ==
    LET tag == read_var(bytes)
        buf == read_buf(tag.rest)
        perm == read_var(tag.rest)
        reason == read_buf(perm.rest)
    IN IF ~tag.ok THEN ReadError
       ELSE IF tag.v = MSG_SYNC THEN decode_sync_message(tag.rest)
       ELSE IF tag.v = MSG_AWARENESS
       THEN IF ~buf.ok THEN ReadError
            ELSE Decoded("awareness", "", tag.v, buf.buf)
       ELSE IF tag.v = MSG_AUTH
       THEN IF ~perm.ok THEN ReadError
            ELSE IF perm.v = PERMISSION_DENIED
            THEN IF ~reason.ok THEN ReadError
                 ELSE Decoded("auth", "denied", tag.v, reason.buf)
            ELSE Decoded("auth", "granted", tag.v, <<>>)
       ELSE IF tag.v = MSG_QUERY_AWARENESS
       THEN Decoded("query_awareness", "", tag.v, <<>>)
       ELSE IF ~buf.ok THEN ReadError
       ELSE Decoded("custom", "", tag.v, buf.buf)

\* a frame reaches the host
host_frame(frame) ==
    /\ wire' = frame
    /\ UNCHANGED <<awareness, arrays, call>>
    /\ Return(NoEvent)
    /\ UNCHANGED <<store, blocks, docWriter, docReaders, log, tok, tokHolders,
                   sub, pc, alive, mailbox, undoObs>>

\* sync.rs sync_message_decode_v1: the frame the host holds is decoded
sync_message_decode_v1(p) ==
    /\ Callable(p)
    /\ LET r == decode_message(wire)
           e == Error_encode(ErrorOf(r.variant, r.msg))
       IN Return([Event("sync_message_decode", "D1", NoTok, <<wire>>,
                        IF r.ok THEN "ok" ELSE e.res)
                    EXCEPT !.h = <<r>>, !.msg = IF r.ok THEN "" ELSE e.msg])
    /\ UNCHANGED <<store, blocks, docWriter, docReaders, log, tok, tokHolders,
                   sub, pc, alive, mailbox, undoObs, wire,
                   awareness, arrays, call>>

\* The terms of the messages, written as decode_message returns them:
\* (sync, (step, bytes)), (awareness, bytes), (auth, reason or nil),
\* query_awareness and (custom, tag, bytes).
SyncTagOf(name) ==
    IF name = "sync_step1" THEN MSG_SYNC_STEP_1
    ELSE IF name = "sync_step2" THEN MSG_SYNC_STEP_2
    ELSE MSG_SYNC_UPDATE
Payloads == FramesOfLen(0) \cup FramesOfLen(1)
Messages ==
    {Decoded("sync", name, SyncTagOf(name), data) :
        name \in {"sync_step1", "sync_step2", "sync_update"},
        data \in Payloads}
    \cup {Decoded("awareness", "", MSG_AWARENESS, data) : data \in Payloads}
    \cup {Decoded("auth", "denied", MSG_AUTH, reason) : reason \in Payloads}
    \cup {Decoded("auth", "granted", MSG_AUTH, <<>>),
          Decoded("query_awareness", "", MSG_QUERY_AWARENESS, <<>>)}
    \cup {Decoded("custom", "", tag, data) : tag \in Bytes, data \in Payloads}

\* What an encoder is asked to write, in order: Encoder::write_var,
\* write_buf and write_string.
write_var(n) == <<"var", <<n>>>>
write_buf(bytes) == <<"buf", bytes>>
write_string(bytes) == <<"string", bytes>>
Written(writes) == [ok |-> TRUE, writes |-> writes, msg |-> ""]
Unexpected_structure ==
    [ok |-> FALSE, writes |-> <<>>, msg |-> "Unexpected structure"]

\* sync.rs encode_sync_message
encode_sync_message(m) ==
    IF m.sub = "sync_step1"
    THEN Written(<<write_var(MSG_SYNC_STEP_1), write_buf(m.data)>>)
    ELSE IF m.sub = "sync_step2"
    THEN Written(<<write_var(MSG_SYNC_STEP_2), write_buf(m.data)>>)
    ELSE IF m.sub = "sync_update"
    THEN Written(<<write_var(MSG_SYNC_UPDATE), write_buf(m.data)>>)
    ELSE Unexpected_structure

\* sync.rs encode_message: the tag of a custom message is written as it is
\* given.
encode_message(m) ==
    IF m.kind = "sync"
    THEN LET inner == encode_sync_message(m)
         IN IF inner.ok
            THEN Written(<<write_var(MSG_SYNC)>> \o inner.writes)
            ELSE inner
    ELSE IF m.kind = "awareness"
    THEN Written(<<write_var(MSG_AWARENESS), write_buf(m.data)>>)
    ELSE IF m.kind = "auth"
    THEN IF m.sub = "denied"
         THEN Written(<<write_var(MSG_AUTH), write_var(PERMISSION_DENIED),
                        write_string(m.data)>>)
         ELSE Written(<<write_var(MSG_AUTH), write_var(PERMISSION_GRANTED)>>)
    ELSE IF m.kind = "custom"
    THEN Written(<<write_var(m.tag), write_buf(m.data)>>)
    ELSE IF m.kind = "query_awareness"
    THEN Written(<<write_var(MSG_QUERY_AWARENESS)>>)
    ELSE Unexpected_structure

\* the bytes of one write: an integer is its byte, a buffer and a string
\* are their length and their bytes
WriteBytes(w) == IF w[1] = "var" THEN w[2] ELSE <<Len(w[2])>> \o w[2]
RECURSIVE WritesBytes(_, _)
WritesBytes(writes, kinds) ==
    IF writes = <<>> THEN <<>>
    ELSE (IF Head(writes)[1] \in kinds THEN WriteBytes(Head(writes))
          ELSE <<>>) \o WritesBytes(Tail(writes), kinds)

\* yrs EncoderV1::to_vec: everything in the order it was written.
EncoderV1_to_vec(writes) == WritesBytes(writes, {"var", "buf", "string"})
\* yrs EncoderV2::to_vec: the feature byte, the columns, then the rest.
\* write_var and write_buf go to the rest and write_string to the string
\* column; the columns no message writes to are empty and left out here.
EncoderV2_to_vec(writes) ==
    LET strings == WritesBytes(writes, {"string"})
    IN <<0, Len(strings)>> \o strings \o WritesBytes(writes, {"var", "buf"})

\* yrs DecoderV2::new: the feature byte and the columns are read, and the
\* rest is what the reads of integers and buffers go through.
DecoderV2_new(bytes) ==
    LET flag == read_var(bytes)
        column == read_buf(flag.rest)
    IN IF ~flag.ok \/ ~column.ok
       THEN [ok |-> FALSE, strings |-> <<>>, rest |-> <<>>]
       ELSE [ok |-> TRUE, strings |-> column.buf, rest |-> column.rest]

\* sync.rs decode_message on a DecoderV2: as on a DecoderV1, but
\* read_string reads from the string column.
decode_message_v2(bytes) ==
    LET decoder == DecoderV2_new(bytes)
        tag == read_var(decoder.rest)
        perm == read_var(tag.rest)
        reason == read_buf(decoder.strings)
    IN IF ~decoder.ok THEN ReadError
       ELSE IF tag.ok /\ tag.v = MSG_AUTH
       THEN IF ~perm.ok THEN ReadError
            ELSE IF perm.v = PERMISSION_DENIED
            THEN IF ~reason.ok THEN ReadError
                 ELSE Decoded("auth", "denied", tag.v, reason.buf)
            ELSE Decoded("auth", "granted", tag.v, <<>>)
       ELSE decode_message(decoder.rest)

\* the calls that encode a message
SyncCalls == [fn : {"sync_message_encode"}, m : Messages]

\* sync.rs sync_message_encode_v1, sync_message_encode_v2: the bytes of
\* the message go to the host, or the error of encode_message.
sync_message_encode(p, ver) ==
    /\ Callable(p)
    /\ call # NoCall
    /\ call.fn = "sync_message_encode"
    /\ LET r == encode_message(call.m)
           e == Error_encode(ErrorOf("Message", r.msg))
       IN /\ wire' = IF ~r.ok THEN wire
                     ELSE IF ver = "v1" THEN EncoderV1_to_vec(r.writes)
                     ELSE EncoderV2_to_vec(r.writes)
          /\ Return([Event("sync_message_encode", "D1", NoTok,
                           <<call.m, ver>>, IF r.ok THEN "ok" ELSE e.res)
                       EXCEPT !.msg = IF r.ok THEN "" ELSE e.msg])
    /\ UNCHANGED <<store, blocks, docWriter, docReaders, log, tok, tokHolders,
                   sub, pc, alive, mailbox, undoObs, awareness, arrays,
                   call>>
sync_message_encode_v1(p) == sync_message_encode(p, "v1")
sync_message_encode_v2(p) == sync_message_encode(p, "v2")

\* sync.rs sync_message_decode_v2
sync_message_decode_v2(p) ==
    /\ Callable(p)
    /\ LET r == decode_message_v2(wire)
           e == Error_encode(ErrorOf(r.variant, r.msg))
       IN Return([Event("sync_message_decode", "D1", NoTok, <<wire, "v2">>,
                        IF r.ok THEN "ok" ELSE e.res)
                    EXCEPT !.h = <<r>>, !.msg = IF r.ok THEN "" ELSE e.msg])
    /\ UNCHANGED <<store, blocks, docWriter, docReaders, log, tok, tokHolders,
                   sub, pc, alive, mailbox, undoObs, wire,
                   awareness, arrays, call>>

\* SpecSync: frames arrive and are decoded
NextSync ==
    \/ \E frame \in Frames : host_frame(frame)
    \/ \E p \in Procs : sync_message_decode_v1(p)

SpecSync == Init /\ [][NextSync]_vars

\* SpecErr: frames are decoded and calls fail, with every error of error.rs
NextErr ==
    \/ NextSync
    \/ \E err \in Errors : nif_return(1, err)

SpecErr == Init /\ [][NextErr]_vars

References ==
    {SharedTypeId_encode(Root("m"))}
    \cup {SharedTypeId_encode(Nested(<<c, n>>)) :
            c \in Clients, n \in 1..MaxItems}

\* SpecHandle: handles of nested shared types of one document that are
\* created, replaced and deleted, through a token and without one.
NextHandle ==
    \/ \E p \in Procs : doc_begin_transaction(p, "D1", "nil")
    \/ \E p \in Procs, t \in Tokens : commit_transaction(p, t)
    \/ \E p \in Procs, t \in Tokens \cup {NoTok} : mutably(p, "D1", t)
    \/ \E p \in Procs, k \in Keys, v \in {1, NestedType, NoVal} :
          mutably_run(p, k, v)
    \/ \E p \in Procs, t \in Tokens \cup {NoTok} : readonly(p, "D1", t)
    \/ \E p \in Procs, k \in Keys : readonly_run(p, k)
    \/ \E p \in Procs, bytes \in References : map_size(p, bytes)

SpecHandle == Init /\ [][NextHandle]_vars

\* SpecExit: observers whose process may exit, with ephemeral transactions
\* on one document and the undo manager's item_added observer.
NextExit ==
    \/ \E p \in Procs : mutably(p, "D1", NoTok)
    \/ \E p \in Procs, k \in Keys, v \in {1, NoVal} : mutably_run(p, k, v)
    \/ \E p \in Procs, reg \in NextReg :
          shared_type_observe(p, "D1", NoTok, p, reg)
    \/ \E p \in Procs : undo_manager_new(p)
    \/ \E p \in Procs : undo_manager_observe_item_added(p, p)
    \/ \E p \in Procs : undo_observer_observe_item_added(p, p)
    \/ delivery_thread_step
    \/ \E p \in Procs : process_exit(p)

SpecExit == Init /\ [][NextExit]_vars

\* ================================================================ claims
\* the write transactions that are live on document d: the explicit ones
\* stored in a token and the ephemeral ones of calls in flight
LiveWriteTxns(d) ==
    {TokTxn(t) : t \in {u \in Tokens : tok[u].slot = "live" /\ tok[u].d = d}}
    \cup {EphTxn(p) : p \in {q \in Procs : pc[q].op = "mut" /\ pc[q].d = d
                                           /\ pc[q].txn = EphTxn(q)}}

\* C1: in every reachable state each document has at most one live write
\* transaction: one open token or one ephemeral write in flight, never both
\* and never two.
C1_OneLiveWriteTxn ==
    \A d \in Docs : Cardinality(LiveWriteTxns(d)) <= 1

\* a token is open on one document while an ephemeral write is in flight on
\* the other, and both processes are inside a call
C1_Witness ==
    \E t \in Tokens, p \in Procs :
        /\ tok[t].slot = "live"
        /\ pc[p].op = "mut" /\ pc[p].txn = EphTxn(p) /\ pc[p].d # tok[t].d
        /\ \E q \in Procs \ {p} : pc[q].op = "read"

\* C2: while an explicit transaction token is open on a document, every
\* other attempt to open a write transaction on it (a begin, or a mutating
\* call that does not run on the open token) returns transaction_acq_error
\* in the same call, without waiting, and leaves the document content and
\* the open token's pending writes unchanged.
C2_ConflictWhileTokenOpen ==
    [][\A d \in Docs : docWriter[d].kind = "tok" =>
          /\ (/\ ev'.d = d
              /\ ev'.op = "begin" \/ (ev'.op = "mut" /\ pc' = pc))
             => /\ ev'.res = TransactionError
                /\ UNCHANGED <<store, tok, docWriter, log, mailbox>>
          /\ \A p \in Procs :
                pc[p] = Idle /\ pc'[p].op = "mut" /\ pc'[p].d = d
                => pc'[p].txn.kind # "eph"
          /\ \A t \in Tokens :
                tok[t].slot = "unborn" /\ tok'[t].slot = "live"
                => tok'[t].d # d
          /\ \A p \in Procs :
                Callable(p) => /\ ENABLED doc_begin_transaction(p, d, "nil")
                               /\ ENABLED mutably(p, d, NoTok)
      ]_vars

\* a token with a pending write is open and a begin has just been refused
C2_Witness ==
    \E t \in Tokens :
        /\ tok[t].slot = "live" /\ tok[t].changed # {}
        /\ ev.op = "begin" /\ ev.d = tok[t].d /\ ev.res = TransactionError

\* C3: commit is idempotent: commit_transaction on a token that was already
\* committed returns ok and changes nothing: not the document, not the lock,
\* not the token, and it sends no message.
C3_CommitIdempotent ==
    [][\A t \in Tokens :
          ev'.op = "commit" /\ ev'.t = t /\ tok[t].slot = "empty"
          => /\ ev'.res = "ok"
             /\ UNCHANGED <<store, docWriter, docReaders, log, tok, tokHolders,
                            sub, pc, alive, mailbox, undoObs>>
      ]_vars

\* the last call was a commit of a token whose transaction had committed
\* before another one, which delivered a message, did
C3_Witness ==
    \E t \in Tokens, n \in 1..Len(log) :
        /\ ev.op = "commit" /\ ev.t = t
        /\ log[n].by = TokTxn(t)
        /\ n < Len(log) /\ log[Len(log)].by # TokTxn(t)
        /\ mailbox[1] # <<>>

\* C4: a committed token is inert: its slot stays empty and its record
\* unchanged; a mutating or reading call that supplies it runs in a fresh
\* transaction of its own (never the token's), its mutation is committed and
\* visible when the call returns and the document's lock is free again, and
\* its read sees the committed content.
C4_CommittedTokenInert ==
    [][\A t \in Tokens : tok[t].slot = "empty" =>
          /\ tok'[t] = tok[t]
          /\ \A p \in Procs :
                pc[p] = Idle /\ pc'[p].op \in {"mut", "read"} /\ pc'[p].t = t
                => /\ pc'[p].txn \in {EphTxn(p), ReadTxn(p)}
                   /\ docWriter[pc'[p].d] = NoTxn
          /\ (ev'.op = "mut" /\ ev'.t = t /\ ev'.res = "ok")
             => /\ store'[ev'.d][ev'.arg[1]] = ev'.arg[2]
                /\ docWriter[ev'.d].kind = "eph"
                /\ docWriter'[ev'.d] = NoTxn
                /\ log' = Append(log, log'[Len(log')])
                /\ log'[Len(log')].by = Ephemeral
          /\ (ev'.op = "read" /\ ev'.t = t /\ ev'.arg # <<>>)
             => /\ ev'.res = "ok"
                /\ ev'.val = store[ev'.d][ev'.arg[1]]
                /\ docWriter[ev'.d] = NoTxn
      ]_vars

\* a mutating call that supplied a committed token has just returned, and
\* what it wrote differs from what the token's transaction had written
C4_Witness ==
    \E t \in Tokens :
        /\ tok[t].slot = "empty" /\ tok[t].wrote["x"] = <<1>>
        /\ ev.op = "mut" /\ ev.t = t /\ ev.res = "ok" /\ ev.arg = <<"x", 2>>
        /\ store["D1"]["x"] = 2
        /\ Len(log) = 2 /\ log[1].by = TokTxn(t) /\ log[2].by = Ephemeral

\* C5: read-your-writes through the token: a read that supplies a live token
\* runs on the token's own write transaction, is never refused, and returns
\* for a key written through the token the value last written through it.
C5_ReadYourWrites ==
    [][\A t \in Tokens : tok[t].slot = "live" =>
          /\ \A p \in Procs :
                pc[p] = Idle /\ pc'[p].op = "read" /\ pc'[p].t = t
                => pc'[p].txn = TokTxn(t)
          /\ (ev'.op = "read" /\ ev'.t = t)
             => /\ ev'.res # TransactionError
                /\ pc # pc'
                /\ tok[t].wrote[ev'.arg[1]] # <<>>
                   => <<ev'.val>> = tok[t].wrote[ev'.arg[1]]
          /\ \A p \in Procs :
                Callable(p) /\ Writers(t) = {} => ENABLED readonly(p, tok[t].d, t)
      ]_vars

\* a read through a live token has just returned the value written through
\* the token, while nothing has been committed to the document yet
C5_Witness ==
    \E t \in Tokens :
        /\ tok[t].slot = "live" /\ tok[t].wrote["x"] = <<1>>
        /\ ev.op = "read" /\ ev.t = t /\ ev.arg = <<"x">> /\ ev.val = 1
        /\ log = <<>>

\* the commits stamped on the messages of subscription s in the mailbox of
\* its process, in mailbox order
SubSeqs(s) ==
    LET mine == SelectSeq(mailbox[sub[s].pid], LAMBDA m : m.sub = s)
    IN [i \in 1..Len(mine) |-> mine[i].seq]

\* the commits that changed the document while subscription s was in force
Fired(s) == {n \in 1..Len(log) : log[n].changed /\ s \in log[n].regs}

\* C6: the messages a subscription has delivered to its process are, in
\* order, exactly one per transaction that changed the document between
\* the subscription and its unsubscribe: N implicit transactions that each
\* mutate give N messages in mutation order and those committed after
\* unsubscribe give none; no other process receives any of them.
C6_OneMessagePerMutation ==
    \A s \in Subs : Subscribed(s) =>
        /\ SubSeqs(s) = SortedSeq(Fired(s))
        /\ \A p \in Procs \ {sub[s].pid} :
              \A i \in 1..Len(mailbox[p]) : mailbox[p][i].sub # s

\* two implicit transactions mutated the document; one subscription got a
\* message for each, in order, another was unsubscribed after the first and
\* got that one only
C6_Witness ==
    \E s \in Subs, u \in Subs :
        /\ Len(log) = 2 /\ log[1].by = Ephemeral /\ log[2].by = Ephemeral
        /\ sub[s].kind = "observe_event" /\ SubSeqs(s) = <<1, 2>>
        /\ sub[u].cancelled /\ sub[u].slot = "empty" /\ SubSeqs(u) = <<1>>

\* C7: unsubscribe is total and idempotent: whatever the state of the
\* subscription (stored, already cleared, mutex poisoned) any process can
\* call it, it returns ok and leaves the stored subscription empty, it
\* touches nothing else, and on a cleared subscription it changes nothing.
C7_UnsubscribeTotalIdempotent ==
    [][/\ \A s \in Subs :
             (ev'.op = "unsubscribe" /\ ev'.s = s)
             => /\ ev'.res = "ok"
                /\ sub'[s].slot = "empty"
                /\ \A u \in Subs \ {s} : sub'[u] = sub[u]
                /\ sub[s].slot = "empty" => sub' = sub
                /\ UNCHANGED <<store, docWriter, docReaders, log, tok,
                               tokHolders, pc, alive, mailbox, undoObs>>
       /\ \A s \in Subs, p \in Procs :
             Callable(p) /\ Subscribed(s) => ENABLED sub_unsubscribe(p, s)
      ]_vars

\* the last call unsubscribed, for the second time, a subscription whose
\* mutex is poisoned and that had delivered a message before
C7_Witness ==
    \E s \in Subs :
        /\ ev.op = "unsubscribe" /\ ev.s = s /\ ev.res = "ok"
        /\ sub[s].poisoned /\ sub[s].slot = "empty"
        /\ SubSeqs(s) = <<1>> /\ Len(log) = 2 /\ log[2].changed

\* C8: the messages of any one subscription lie in the mailbox of its
\* process in the order in which their transactions committed, whichever
\* processes committed them and whether through a token or not.
C8_DeliveryInCommitOrder ==
    \A p \in Procs :
        \A i \in 1..Len(mailbox[p]), j \in 1..Len(mailbox[p]) :
            (i < j /\ mailbox[p][i].sub = mailbox[p][j].sub)
            => mailbox[p][i].seq < mailbox[p][j].seq

\* a subscription of each kind has received the messages of a transaction
\* committed through a token and then of an ephemeral one
C8_Witness ==
    \E s \in Subs, u \in Subs :
        /\ sub[s].kind = "observe_event" /\ sub[u].kind = "update_v1"
        /\ SubSeqs(s) = <<1, 2>> /\ SubSeqs(u) = <<1, 2>>
        /\ log[1].by.kind = "tok" /\ log[2].by = Ephemeral

\* the messages in mailbox order that subscription s delivered to process p
SubMsgs(s, p) == SelectSeq(mailbox[p], LAMBDA m : m.sub = s)

\* each firing of s has exactly one message, in the subscriber's mailbox
OneMessagePerFiring(s) ==
    /\ \A n \in Fired(s) :
          Cardinality({i \in 1..Len(mailbox[sub[s].pid]) :
                          /\ mailbox[sub[s].pid][i].sub = s
                          /\ mailbox[sub[s].pid][i].seq = n}) = 1
    /\ \A p \in Procs : \A i \in 1..Len(SubMsgs(s, p)) :
          p = sub[s].pid /\ SubMsgs(s, p)[i].seq \in Fired(s)

C10_FireAndForget ==
    [][/\ (ev'.op = "mut" /\ ev'.arg # <<>>)
          => /\ ev'.res = "ok"
             /\ store'[ev'.d][ev'.arg[1]] = ev'.arg[2]
             /\ \A s \in Subs :
                   (Registered(s, ev'.d) /\ log'[Len(log')].changed)
                   => Len(SubMsgs(s, sub[s].pid))'
                        = Len(SubMsgs(s, sub[s].pid))
                          + (IF alive[sub[s].pid] THEN 1 ELSE 0)
       /\ \A p \in Procs : ~alive[p] => mailbox'[p] = mailbox[p]
       /\ undoObs'.thread # "panicked"
      ]_vars

\* the locks a committing call can hold and the ones calls wait for
BridgeLocks ==
    {TokenLock(t) : t \in Tokens} \cup {StoreLock(d) : d \in Docs}
    \cup {SubLock(s) : s \in Subs} \cup {ManagerLock}

\* C11: an observer callback never re-enters the bridge: whichever callback
\* runs, it acquires no transaction-token, subscription or undo-manager
\* lock and opens no transaction (takes no store lock), so every commit
\* with registered observers completes: commit_transaction under the
\* token's guard, the commit of an ephemeral transaction, and the commit of
\* the undo manager's transaction under the manager's guard.
C11_CallbacksNeverReenter ==
    /\ \A s \in Subs :
          \A kind \in {"observe_event", "update_v1", "item_added",
                       "item_popped"} :
             CallbackAcquires(kind, s) \cap BridgeLocks = {}
    /\ \A p \in Procs, t \in Tokens :
          (Callable(p) /\ Born(t) /\ tokHolders[t] = {})
          => ENABLED commit_transaction(p, t)
    /\ \A p \in Procs :
          pc[p].op = "mut"
          => \A k \in Keys, v \in {1, NoVal} : ENABLED mutably_run(p, k, v)
    /\ \A p \in Procs :
          (pc[p].op = "undo" /\ try_transact_mut("D1"))
          => ENABLED undo_blocking(p)

\* a transaction committed through its token and the undo of it have both
\* fired a branch observer, and the undo, under the manager's guard, the
\* manager's item_added and item_popped callbacks as well
C11_Witness ==
    /\ Len(log) = 2 /\ log[1].by.kind = "tok" /\ log[2].by = UndoTxn
    /\ \E s \in Subs : sub[s].kind = "observe_event" /\ SubSeqs(s) = <<1, 2>>
    /\ \E i \in 1..Len(mailbox[1]), j \in 1..Len(mailbox[1]) :
          /\ mailbox[1][i].msg[1] = "item_added" /\ mailbox[1][i].seq = 2
          /\ mailbox[1][j].msg[1] = "item_popped" /\ mailbox[1][j].seq = 2
          /\ i < j

\* the nested shared types that exist in document d: the items that are the
\* value of a key of the map
LiveBranchesOf(st, b) ==
    {Entry(b, k) : k \in {x \in Keys : st[x] = NestedType}}
LiveBranches(d) == LiveBranchesOf(store[d], blocks[d])

\* the ids of the items document d has seen that hold no shared type now
DeadIdsOf(st, b) == Ids(b) \ LiveBranchesOf(st, b)
DeadIds(d) == DeadIdsOf(store[d], blocks[d])

\* C12: a handle of a nested shared type that has been deleted (removed
\* from its parent or replaced there) resolves to the deleted error in
\* every transaction, with or without a token, and it does so from the
\* reference the host holds, which is decoded on every call; the deletion
\* is never undone by a later write, and the call never resolves to the
\* branch that may live under the same key now.
C12_DeletedHandleStaysDeleted ==
    [][/\ \A d \in Docs :
             DeadIds(d) \subseteq DeadIdsOf(store'[d], blocks'[d])
       /\ \A d \in Docs : \A id \in DeadIds(d) :
             (/\ ev'.op = "map_size" /\ ev'.d = d
              /\ SharedTypeId_decode(ev'.arg[1]) = Nested(id))
             => /\ ev'.res = DeletedReference
                /\ ev'.h = <<>>
      ]_vars

\* a handle of a replaced nested type has just resolved to the deleted
\* error through a token, while another nested type lives under its key
C12_Witness ==
    /\ ev.op = "map_size" /\ ev.res = DeletedReference /\ ev.t # NoTok
    /\ ev.arg = <<SharedTypeId_encode(Nested(<<1, 1>>))>>
    /\ store["D1"]["x"] = NestedType
    /\ LiveBranches("D1") = {<<1, 2>>}

\* the hooks of the shared types a document can hold
Hooks == {Root("m")} \cup {Nested(<<c, n>>) : c \in Clients, n \in 1..MaxItems}

FullState(ver, src) ==
    Update_encode(ver, encode_diff(blocks[src], StateVector_default))

Malformed(ver, bytes) == Len(bytes) # 3 \/ bytes[1] # ver

\* C16: apply_update (v1 and v2) with malformed bytes returns the decoding
\* error, the encoding_exception tag with the diagnostic, which is neither
\* the transaction error nor the deleted error; the bytes are decoded
\* before the transaction is asked for, so the result is the same while a
\* write transaction is open; nothing of the document, of the tokens or
\* of the locks changes, no transaction is opened and no message is sent.
C16_MalformedUpdateRejected ==
    [][\A d \in Docs, t \in Tokens \cup {NoTok}, ver \in Versions :
          (apply_update(1, d, t, ver) /\ Malformed(ver, wire))
          => /\ ev'.op = "apply_update"
             /\ ev'.res = EncodingException
             /\ ev'.msg # ""
             /\ ev'.res \notin {TransactionError, DeletedReference}
             /\ UNCHANGED <<store, blocks, docWriter, docReaders, log, tok,
                            tokHolders, sub, pc, mailbox, undoObs>>
      ]_vars

\* a truncated update has been refused for D2 while a token holds D2's
\* write transaction and an observer is registered on D2
C16_Witness ==
    /\ ev.op = "apply_update" /\ ev.res = EncodingException
    /\ ev.d = "D2" /\ ev.t = NoTok
    /\ Len(wire) = 2
    /\ \E t \in Tokens : docWriter["D2"] = TokTxn(t) /\ tok[t].slot = "live"
    /\ \E s \in Subs : Registered(s, "D2")

\* the top-level tags the dispatcher knows
KnownTags == {MSG_SYNC, MSG_AWARENESS, MSG_AUTH, MSG_QUERY_AWARENESS}
\* the tags of the sync sub-messages
KnownSyncTags == {MSG_SYNC_STEP_1, MSG_SYNC_STEP_2, MSG_SYNC_UPDATE}

\* C17 as stated: a frame whose top-level tag is none of sync, awareness,
\* auth and query-awareness is never decoded to a message.
C17_UnknownTopLevelRejected ==
    (/\ ev.op = "sync_message_decode"
     /\ ev.arg[1] # <<>>
     /\ ev.arg[1][1] \notin KnownTags)
    => ev.res # "ok"

\* C17, amended: a frame whose top-level tag is none of the four is not
\* refused for its tag: when a whole buffer follows the tag it decodes to
\* the custom message with that tag and that buffer, and it is an error
\* only when the buffer is cut short.
C17_UnknownTopLevelIsCustom ==
    (/\ ev.op = "sync_message_decode"
     /\ ev.arg[1] # <<>>
     /\ ev.arg[1][1] \notin KnownTags)
    => LET frame == ev.arg[1]
           whole == Len(frame) >= 2 /\ Len(frame) - 2 >= frame[2]
       IN IF whole
          THEN /\ ev.res = "ok"
               /\ ev.h[1].kind = "custom"
               /\ ev.h[1].tag = frame[1]
               /\ ev.h[1].data = SubSeq(frame, 3, 2 + frame[2])
          ELSE ev.res = EncodingException /\ ev.msg = EndOfBuffer

\* the frame <<4, 1, 3>> has been decoded to the custom message 4 with the
\* payload <<3>>
C17_Witness ==
    /\ ev.op = "sync_message_decode" /\ ev.arg = <<(<<4, 1, 3>>)>>
    /\ ev.res = "ok" /\ ev.h[1].kind = "custom" /\ ev.h[1].data = <<3>>

\* C18 as stated: a sync frame whose sub-message tag is none of step1,
\* step2 and update decodes to a custom message with that tag and the
\* payload.
C18_UnknownSyncTagIsCustom ==
    (/\ ev.op = "sync_message_decode"
     /\ Len(ev.arg[1]) >= 2
     /\ ev.arg[1][1] = MSG_SYNC
     /\ ev.arg[1][2] \notin KnownSyncTags)
    => /\ ev.res = "ok"
       /\ ev.h[1].sub = "custom"
       /\ ev.h[1].tag = ev.arg[1][2]

\* C18, amended: a sync frame whose sub-message tag is none of step1, step2
\* and update is an error, whatever follows the tag: the decoder returns
\* "Unexpected tag value: <tag>" and no message.
C18_UnknownSyncTagRejected ==
    (/\ ev.op = "sync_message_decode"
     /\ Len(ev.arg[1]) >= 2
     /\ ev.arg[1][1] = MSG_SYNC
     /\ ev.arg[1][2] \notin KnownSyncTags)
    => /\ ev.res = Untagged
       /\ ev.msg = UnexpectedTag(ev.arg[1][2])
       /\ ~ev.h[1].ok

\* the sync frame <<0, 3, 0>>, sub-message tag 3 with an empty buffer, has
\* been refused
C18_Witness ==
    /\ ev.op = "sync_message_decode" /\ ev.arg = <<(<<0, 3, 0>>)>>
    /\ ev.res = Untagged /\ ev.msg = "Unexpected tag value: 3"

\* the results that are errors
IsError(e) == e.op # "none" /\ e.res # "ok"
\* the kind tags of the claim: the conflict, the decoding error, the deleted
\* error, the poisoned lock and the protocol violation
KindTags ==
    {TransactionError, EncodingException, DeletedReference, "poison_error",
     "protocol_violation"}

C20_PoisonedTokenNeverWedges ==
    [][\A p \in Procs, t \in Tokens :
          (tok[t].poisoned /\ commit_transaction(p, t))
          => docWriter'[tok[t].d] # TokTxn(t)
      ]_vars

\* the calls that are inside the transaction stored in token t
Inside(t) == {p \in Procs : pc[p].txn = TokTxn(t)}
InsideWriting(t) == {p \in Inside(t) : pc[p].op = "mut"}

\* C21 as stated: no two calls are inside a token's transaction at the
\* same time.
C21_OneCallerInsideToken ==
    \A t \in Tokens : Cardinality(Inside(t)) <= 1

\* C21, amended: a mutating call is alone inside a token's transaction,
\* and a commit replaces the transaction only while no call is inside it;
\* reading calls may be inside it together.
C21_WriterAloneInsideToken ==
    [][\A t \in Tokens :
          /\ InsideWriting(t) # {} => Cardinality(Inside(t)) = 1
          /\ (ev'.op = "commit" /\ ev'.t = t /\ tok[t].slot # tok'[t].slot)
             => Inside(t) = {}
      ]_vars

\* two reading calls are inside the transaction of one token
C21_Witness ==
    \E t \in Tokens :
       /\ Cardinality(Inside(t)) = 2
       /\ \A p \in Inside(t) : pc[p].op = "read"

\* no token holds a transaction of document d, and no call is inside one
Quiet(d) ==
    /\ \A t \in Tokens : ~(tok[t].slot = "live" /\ tok[t].d = d)
    /\ \A q \in Procs : pc[q] = Idle \/ TxnDoc(pc[q]) # d

\* C22: the conflict is recoverable: the commit of a token that holds a
\* transaction gives the document free, and a begin or a token-less
\* mutation on a document on which no token holds a transaction and no
\* call is running is not refused, whatever tokens were committed before.
C22_ConflictRecoverable ==
    [][/\ \A p \in Procs, t \in Tokens :
             (commit_transaction(p, t) /\ tok[t].slot = "live")
             => /\ docWriter'[tok[t].d] = NoTxn
                /\ tok'[t].slot = "empty"
       /\ \A p \in Procs, d \in Docs :
             (/\ Quiet(d)
              /\ doc_begin_transaction(p, d, "nil") \/ mutably(p, d, NoTok))
             => ev'.res # TransactionError
      ]_vars

\* the first token was begun and committed, and then a second begin on the
\* document has succeeded
C22_Witness ==
    /\ ev.op = "begin" /\ ev.res = "ok" /\ ev.t = 2
    /\ tok[1].slot = "empty" /\ tok[1].d = tok[2].d
    /\ Len(log) = 1 /\ log[1].by = TokTxn(1)

\* the tokens that hold a transaction with writes not yet committed
Pending == {t \in Tokens : tok[t].slot = "live" /\ tok[t].changed # {}}

\* C23: mutations are atomic per commit. While a token holds uncommitted
\* writes, every call that reads its document is inside the token's
\* transaction, and no step but the commit of the token puts a message into
\* a mailbox; the commit writes nothing more, gives the document free for
\* every reader, and sends each registered observer one message with all
\* the keys the transaction changed.
C23_AtomicPerCommit ==
    [][\A t \in Pending :
          /\ \A p \in Procs :
                (pc'[p].op = "read" /\ pc'[p].d = tok[t].d)
                => pc'[p].txn = TokTxn(t) \/ tok'[t].slot # "live"
          /\ (ev'.op = "read" /\ ev'.res = "ok" /\ ev'.d = tok[t].d)
             => \E p \in Procs : pc[p].txn = TokTxn(t) /\ pc'[p] = Idle
          /\ mailbox' # mailbox
             => /\ ev'.op = "commit" /\ ev'.t = t
                /\ store' = store
                /\ docWriter'[tok[t].d] = NoTxn
                /\ \A s \in Subs : Registered(s, tok[t].d) =>
                      LET mb == mailbox'[sub[s].pid]
                      IN /\ Len(mb) = Len(mailbox[sub[s].pid]) + 1
                         /\ mb[Len(mb)].msg[3] =
                               [k \in tok[t].changed |-> store[tok[t].d][k]]
          /\ (ev'.op = "commit" /\ ev'.t = t
              /\ \E s \in Subs : Registered(s, tok[t].d))
             => mailbox' # mailbox
      ]_vars

\* a token's write was committed, the observer got the one message of the
\* commit, and a read without the token has then returned the written value
C23_Witness ==
    /\ ev.op = "read" /\ ev.t = NoTok /\ ev.res = "ok" /\ ev.val = 1
    /\ \E p \in Procs : Len(mailbox[p]) = 1
    /\ Len(log) = 1 /\ log[1].by = TokTxn(1) /\ log[1].changed

\* the message an awareness observer gets for an event
AwarenessMsg(s, added, updated, removed, origin) ==
    [msg |-> <<"awareness_update",
               [added |-> added, updated |-> updated, removed |-> removed],
               origin, "awareness">>,
     sub |-> s, seq |-> 0]

\* the messages a step has put into the mailbox of s's process for s
Received(s) ==
    LET pid == sub[s].pid
    IN SelectSeq(SubSeq(mailbox'[pid], Len(mailbox[pid]) + 1,
                        Len(mailbox'[pid])),
                 LAMBDA m : m.sub = s)

C25_ReleasedSubscriptionSilent ==
    [][\A s \in Subs : sub'[s].slot = "released" =>
          /\ Received(s) = <<>>
          /\ sub[s].slot = "released" => sub'[s] = sub[s]
      ]_vars

\* a subscription got the message of the first commit, was let go of
\* without an unsubscribe, and got nothing for the second commit, which
\* changed the document too
C25_Witness ==
    /\ sub[1].slot = "released" /\ ~sub[1].cancelled
    /\ sub[1].kind = "observe_event"
    /\ Len(log) = 2 /\ log[1].changed /\ log[2].changed
    /\ log[1].regs = {1} /\ log[2].regs = {}
    /\ Len(mailbox[1]) = 1

\* C26: whenever a registered callback fires, the firing thread has an
\* environment set: every commit of a transaction that changed a document,
\* on whatever path, sends each observer registered on the document, whose
\* process is alive, its message.
C26_CallbacksHaveEnv ==
    [][(Len(log') = Len(log) + 1 /\ log'[Len(log')].changed)
       => \A s \in Subs :
             (Registered(s, log'[Len(log')].d) /\ alive[sub[s].pid]
              /\ sub[s].kind # "awareness_update")
             => Len(Received(s)) = 1
      ]_vars

\* C27: while a token holds a write transaction on a document, a read of
\* the document without a token is refused with transaction_acq_error in
\* the same call: it opens no read transaction and returns no value,
\* neither the token's pending writes nor the content before them.
C27_TokenlessReadConflicts ==
    [][\A d \in Docs : docWriter[d].kind = "tok" =>
          /\ \A p \in Procs :
                readonly(p, d, NoTok)
                => /\ ev'.op = "read" /\ ev'.res = TransactionError
                   /\ ev'.val = NoVal
                   /\ pc' = pc /\ docReaders' = docReaders
          /\ (ev'.op = "read" /\ ev'.d = d /\ ev'.t = NoTok)
             => ev'.res = TransactionError
          /\ \A p \in Procs : Callable(p) => ENABLED readonly(p, d, NoTok)
      ]_vars

\* a token holds an uncommitted write and a read without a token has just
\* been refused
C27_Witness ==
    /\ ev.op = "read" /\ ev.t = NoTok /\ ev.res = TransactionError
    /\ \E t \in Tokens : /\ tok[t].slot = "live" /\ tok[t].d = ev.d
                         /\ tok[t].wrote["x"] = <<1>>
                         /\ store[ev.d]["x"] = 1

\* C28: token-less mutating calls of two processes on one document never
\* share a transaction. A call is let in only when no transaction is open
\* on the document and then has an ephemeral transaction of its own, which
\* its return commits with its write; otherwise it returns
\* transaction_acq_error in the same call and changes nothing. A call made
\* while another call's ephemeral transaction is open is never kept waiting.
C28_EphemeralAloneOrRefused ==
    [][\A d \in Docs, p \in Procs :
          /\ mutably(p, d, NoTok)
             => \/ /\ docWriter[d] = NoTxn /\ docReaders[d] = {}
                   /\ docWriter'[d] = EphTxn(p)
                   /\ pc'[p].op = "mut" /\ pc'[p].txn = EphTxn(p)
                   /\ UNCHANGED <<store, blocks, log, mailbox, tok>>
                \/ /\ ev'.op = "mut" /\ ev'.res = TransactionError
                   /\ UNCHANGED <<store, blocks, docWriter, docReaders, log,
                                  mailbox, tok, pc>>
          /\ docWriter[d].kind = "eph"
             => /\ {q \in Procs : pc[q].op = "mut" /\ pc[q].d = d}
                   = {docWriter[d].id}
                /\ \A q \in Procs :
                      Callable(q) => ENABLED mutably(q, d, NoTok)
          /\ (docWriter[d] = EphTxn(p) /\ pc'[p] = Idle)
             => /\ docWriter'[d] = NoTxn
                /\ Len(log') = Len(log) + 1
                /\ log'[Len(log')].by = Ephemeral
                /\ ev'.op = "mut" /\ ev'.res = "ok"
                /\ store'[d][ev'.arg[1]] = ev'.arg[2]
      ]_vars

\* one process is inside its ephemeral transaction and the token-less
\* mutating call of another has just been refused
C28_Witness ==
    /\ ev.op = "mut" /\ ev.t = NoTok /\ ev.res = TransactionError
    /\ \E p \in Procs : docWriter[ev.d] = EphTxn(p) /\ pc[p].op = "mut"
    /\ \A t \in Tokens : tok[t].slot # "live"

\* C29: a call on a handle of a document that is given a live token runs
\* in a transaction of that document: the token whose transaction a call
\* is inside was begun on the document of the call's handle, and a call
\* changes no document but that of its handle.
C29_TokenOfHandlesDocument ==
    [][/\ \A p \in Procs :
             pc'[p].txn.kind = "tok" => tok'[pc'[p].txn.id].d = pc'[p].d
       /\ \A p \in Procs, d \in Docs :
             (pc[p].op = "mut" /\ pc'[p] = Idle /\ store'[d] # store[d])
             => pc[p].d = d
      ]_vars

\* C30: documents are independent. A begin, a token-less read and a
\* token-less mutation on a document are refused only for a transaction of
\* that document: with none open on it they succeed whatever token is open
\* on the other document; and the commit of a token sends no message to an
\* observer registered on another document than the token's.
C30_DocumentsIndependent ==
    [][/\ \A d \in Docs, p \in Procs :
             (/\ docWriter[d] = NoTxn /\ docReaders[d] = {}
              /\ doc_begin_transaction(p, d, "nil") \/ mutably(p, d, NoTok))
             => ev'.res # TransactionError
       /\ \A d \in Docs, p \in Procs :
             (docWriter[d] = NoTxn /\ readonly(p, d, NoTok))
             => ev'.res # TransactionError
       /\ \A p \in Procs, t \in Tokens :
             commit_transaction(p, t)
             => \A s \in Subs :
                   (Subscribed(s) /\ sub[s].d # tok[t].d)
                   => Received(s) = <<>>
      ]_vars

\* a token is open on D1 with an uncommitted write, D2 is observed, and a
\* begin on D2 has just succeeded
C30_Witness ==
    /\ tok[1].slot = "live" /\ tok[1].d = "D1" /\ tok[1].changed # {}
    /\ sub[1].slot = "active" /\ sub[1].d = "D2"
    /\ ev.op = "begin" /\ ev.d = "D2" /\ ev.res = "ok"

\* SpecArray: one document with a nested array under the key of the root
\* map that is created, replaced and deleted, and array calls on the
\* handles of the arrays, through a token and without one, with observers
\* of the root map and of the updates.
Indexes == -(MaxElems + 2)..(MaxElems + 1)
NextArray ==
    \/ \E p \in Procs : doc_begin_transaction(p, "D1", "nil")
    \/ \E p \in Procs, t \in Tokens : commit_transaction(p, t)
    \/ \E t \in Tokens \cup {NoTok} : mutably(1, "D1", t)
    \/ \E k \in Keys, v \in {NestedType, NoVal} : mutably_run(1, k, v)
    \/ \E bytes \in References, index \in Indexes :
          array_insert(1, bytes, index, 1)
    \/ \E bytes \in References, index \in Indexes :
          array_insert_and_get(1, bytes, index, 2)
    \/ \E bytes \in References, index \in Indexes, length \in 0..MaxElems :
          array_delete_range(1, bytes, index, length)
    \/ \E reg \in NextReg : shared_type_observe(1, "D1", NoTok, 1, reg)
    \/ \E reg \in NextReg : doc_monitor_update_v1(1, "D1", 1, reg[2])

SpecArray == Init /\ [][NextArray]_vars

\* the array calls
ArrayOps == {"array_insert", "array_insert_and_get", "array_delete_range"}
\* the branch of the handle is deleted in document d
BranchDeleted(d, bytes) ==
    LET hook == SharedTypeId_decode(bytes)
    IN /\ hook.tag = "Nested"
       /\ hook.id \in Ids(blocks[d])
       /\ ItemAt(blocks[d], hook.id).deleted

\* C31: a mutating call on a handle whose branch has been deleted returns
\* the deleted error and changes nothing: the content of the document and
\* of its arrays stays, no message is sent, and a live token the call was
\* made with keeps its transaction open with the writes pending in it.
C31_DeletedHandleWritesNothing ==
    [][\A p \in Procs :
          pc[p].op = "mut" /\ pc'[p] = Idle /\ ev'.op \in ArrayOps
            /\ BranchDeleted(TxnDoc(pc[p]), ev'.arg[1])
          => /\ ev'.res = DeletedReference
             /\ UNCHANGED <<store, blocks, arrays, mailbox, sub, undoObs>>
             /\ pc[p].txn.kind = "tok"
                  => /\ tok' = tok
                     /\ tok'[pc[p].t].slot = "live"
                     /\ docWriter' = docWriter
      ]_vars

\* an insertion through a live token on the handle of an array the token's
\* transaction has deleted has just been refused, an observer being
\* registered and a write pending in the token
C31_Witness ==
    /\ ev.op = "array_insert"
    /\ ev.res = DeletedReference
    /\ ev.t # NoTok
    /\ tok[ev.t].slot = "live"
    /\ tok[ev.t].changed # {}
    /\ \E s \in Subs : Registered(s, "D1")

\* SpecObserve: observers of the nested arrays of one document, registered
\* without a token and through one, on handles of arrays that are there
\* and of arrays that have been deleted, and insertions into the arrays.
NextObserve ==
    \/ doc_begin_transaction(1, "D1", "nil")
    \/ \E t \in Tokens : commit_transaction(1, t)
    \/ \E t \in Tokens \cup {NoTok} : mutably(1, "D1", t)
    \/ \E k \in Keys, v \in {NestedType, NoVal} : mutably_run(1, k, v)
    \/ \E bytes \in References : array_insert(1, bytes, -1, 1)
    \/ \E bytes \in References, t \in Tokens \cup {NoTok}, reg \in NextReg :
          observe(1, "D1", t, bytes, 1, reg)
    \/ \E bytes \in References, t \in Tokens \cup {NoTok}, reg \in NextReg :
          observe_deep(1, "D1", t, bytes, 1, reg)

SpecObserve == Init /\ [][NextObserve]_vars

\* C32: an observe or observe_deep call that returns an error has
\* registered no callback: the call leaves the subscriptions as they were
\* and sends nothing, and every message a step delivers is the message of
\* a subscription that an earlier call returned.
C32_FailedObserveRegistersNothing ==
    [][/\ ev'.op \in {"observe", "observe_deep"} /\ ev'.res # "ok"
          => sub' = sub /\ mailbox' = mailbox
       /\ \A p \in Procs :
             \A n \in (Len(mailbox[p]) + 1)..Len(mailbox'[p]) :
                Subscribed(mailbox'[p][n].sub)
      ]_vars

\* observe_deep on the handle of a deleted array has just been refused
\* while an observer of an array is registered and has had a message
C32_Witness ==
    /\ ev.op = "observe_deep"
    /\ ev.res = DeletedReference
    /\ \E s \in Subs : Registered(s, "D1") /\ sub[s].kind = "observe"
    /\ mailbox[1] # <<>>

\* SpecOrigin: two documents with observers of the root map and of the
\* updates; the tokens of D1 are begun with the origin o1 and the tokens of
\* D2 with nil, and both documents are written through tokens and without.
NextOrigin ==
    \/ doc_begin_transaction(1, "D1", "o1")
    \/ doc_begin_transaction(1, "D2", "nil")
    \/ \E t \in Tokens : commit_transaction(1, t)
    \/ \E d \in Docs, t \in Tokens \cup {NoTok} :
          (t # NoTok => tok[t].d = d) /\ mutably(1, d, t)
    \/ mutably_run(1, "x", 1)
    \/ \E d \in Docs, reg \in NextReg : shared_type_observe(1, d, NoTok, 1, reg)
    \/ \E d \in Docs, reg \in NextReg : doc_monitor_update_v1(1, d, 1, reg[2])

SpecOrigin == InitQuiet /\ [][NextOrigin]_vars

\* the origin term of an observation message
OriginOf(m) == IF m.msg[1] = "observe_event" THEN m.msg[4] ELSE m.msg[3]
\* the step commits the transaction of a live token of document d
TokenCommits(d) ==
    \E t \in Tokens : /\ tok[t].d = d
                      /\ tok[t].slot = "live"
                      /\ commit_transaction(1, t)

\* C33: the origin of an observation message is the origin of the
\* transaction that commits: the messages of the commit of a transaction
\* begun with the term o1 carry o1 (the term is serialized when the
\* transaction begins and deserialized when the message is built), and the
\* messages of a transaction begun with nil and of an ephemeral
\* transaction carry nil.
C33_OriginCarried ==
    [][\A n \in (Len(mailbox[1]) + 1)..Len(mailbox'[1]) :
          OriginOf(mailbox'[1][n])
            = (IF TokenCommits("D1") THEN "o1" ELSE "nil")
      ]_vars

\* the process has a message with the origin o1 and one with nil of each
\* kind of observer
C33_Witness ==
    \E a, b \in 1..Len(mailbox[1]) :
       /\ mailbox[1][a].msg[1] = "observe_event"
       /\ OriginOf(mailbox[1][a]) = "o1"
       /\ mailbox[1][b].msg[1] = "update_v1"
       /\ OriginOf(mailbox[1][b]) = "nil"

\* SpecUnobserve: an undo manager on D1 whose item_added observer is
\* registered, replaced and removed while tracked transactions commit,
\* through a token and without one, and are undone.
NextUnobserve ==
    \/ undo_manager_new(1)
    \/ doc_begin_transaction(1, "D1", "nil")
    \/ \E t \in Tokens : commit_transaction(1, t)
    \/ \E t \in Tokens \cup {NoTok} : mutably(1, "D1", t)
    \/ \E v \in {1, NoVal} : mutably_run(1, "x", v)
    \/ \E observer \in Procs : undo_manager_observe_item_added(1, observer)
    \/ \E observer \in Procs : undo_observer_observe_item_added(1, observer)
    \/ undo_manager_unobserve_item_added(1)
    \/ delivery_thread_step
    \/ undo_manager_undo(1)
    \/ undo_blocking(1)

SpecUnobserve == Init /\ [][NextUnobserve]_vars

\* the item_added messages a step puts into the mailbox of process p
AddedTo(p) ==
    SelectSeq(SubSeq(mailbox'[p], Len(mailbox[p]) + 1, Len(mailbox'[p])),
              LAMBDA m : m.msg[1] = "item_added")
\* the step puts an item on the undo stack or on the redo stack
Pushes ==
    \/ Len(undoObs'.stack) > Len(undoObs.stack)
    \/ Len(undoObs'.redo) > Len(undoObs.redo)

NextEventId ==
    \/ undo_manager_new(1)
    \/ \E observer \in Procs :
          /\ undoObs.via \in {"none", "env"}
          /\ undo_manager_observe_item_added(1, observer)
    \/ \E observer \in Procs : undo_observer_observe_item_added(1, observer)
    \/ \E observer \in Procs :
          /\ undoObs.via = "env"
          /\ undo_manager_observe_item_popped(1, observer)
    \/ \E observer \in Procs :
          /\ undoObs.via = "thread"
          /\ undo_observer_observe_item_popped(1, observer)
    \/ undoObs.via # "none" /\ mutably(1, "D1", NoTok)
    \/ \E v \in {1, 2, NoVal} : mutably_run(1, "x", v)
    \/ undo_manager_undo(1)
    \/ undo_blocking(1)
    \/ delivery_thread_step
    \/ popped_thread_step

SpecEventId == Init /\ [][NextEventId]_vars

\* the messages of one kind in the mailboxes, as <<process, position>>
MessagesOf(kind) ==
    {pn \in Procs \X (1..(2 * MaxCommits + 2)) :
        /\ pn[2] <= Len(mailbox[pn[1]])
        /\ mailbox[pn[1]][pn[2]].msg[1] = kind}
EventIdOf(pn) == mailbox[pn[1]][pn[2]].msg[2]

\* C35 as stated: the event_id of the item_popped message of an item is
\* the event_id of the item_added message that was sent when the item was
\* pushed (a message the delivery thread still has in its channel counts
\* as sent), and the item_added messages of different items carry
\* different event_ids.
C35_PoppedIdIsAddedId ==
    /\ \A pn \in MessagesOf("item_popped") :
          \/ \E qn \in MessagesOf("item_added") : EventIdOf(qn) = EventIdOf(pn)
          \/ \E n \in 1..Len(undoObs.chan) : undoObs.chan[n] = EventIdOf(pn)
    /\ \A pn \in MessagesOf("item_added"), qn \in MessagesOf("item_added") :
          pn # qn /\ mailbox[pn[1]][pn[2]].seq # mailbox[qn[1]][qn[2]].seq
            => EventIdOf(pn) # EventIdOf(qn)

\* SpecCodec: a message of the protocol is encoded with either codec, and
\* the frame the host then holds is decoded with either codec.
InitCodec == InitState /\ call \in SyncCalls /\ trace = TRUE
NextCodec ==
    \/ \E p \in Procs : sync_message_encode_v1(p)
    \/ \E p \in Procs : sync_message_encode_v2(p)
    \/ \E p \in Procs : wire # <<>> /\ sync_message_decode_v1(p)
    \/ \E p \in Procs : wire # <<>> /\ sync_message_decode_v2(p)

SpecCodec == InitCodec /\ [][NextCodec]_vars

\* the decoding follows the encoding of the message of the call, with the
\* codec of the encoding
DecodesEncoded ==
    /\ ev.op = "sync_message_encode"
    /\ ev.res = "ok"
    /\ ev'.op = "sync_message_decode"
    /\ (ev.arg[2] = "v2") = (Len(ev'.arg) = 2)

\* C36 as stated: every message the encoder accepts round-trips, with the
\* v1 and with the v2 codec: decoding the frame gives the message.
C36_SyncRoundTrip ==
    [][DecodesEncoded => ev'.res = "ok" /\ ev'.h = <<ev.arg[1]>>]_vars

\* The document D1 after one transaction has set the key of its root map
\* to a new array with the elements elems (map_set of a Yex.ArrayPrelim).
ElemSeqs == UNION {[1..n -> Vals] : n \in 0..MaxElems}
WithArray(elems) ==
    /\ store = [d \in Docs |-> IF d = "D1" THEN [k \in Keys |-> NestedType]
                               ELSE EmptyStore]
    /\ blocks = [d \in Docs |->
                   IF d = "D1"
                   THEN MapInsert(EmptyBlocks, ClientOf("D1"), "x", NestedType)
                   ELSE EmptyBlocks]
    /\ docWriter = [d \in Docs |-> NoTxn]
    /\ docReaders = [d \in Docs |-> {}]
    /\ tok = [t \in Tokens |-> UnbornTok]
    /\ tokHolders = [t \in Tokens |-> {}]
    /\ sub = [s \in Subs |-> UnbornSub]
    /\ log = <<Committed("D1", {"x"}, Ephemeral)>>
    /\ pc = [p \in Procs |-> Idle]
    /\ alive = [p \in Procs |-> TRUE]
    /\ mailbox = [p \in Procs |-> <<>>]
    /\ undoObs = NoUndoObserver
    /\ ev = NoEvent
    /\ wire = <<>>
    /\ awareness = [c \in Clients |-> NoState]
    /\ arrays = [d \in Docs |->
                   IF d = "D1"
                   THEN [id \in {<<ClientOf("D1"), 1>>} |-> elems]
                   ELSE NoArrays]

\* SpecUtils: the functions of utils.rs on arguments of the whole range of
\* their types, and array_delete_range on the array of a document with the
\* index and length of the call at hand.
InitUtils ==
    /\ \/ /\ InitState
          /\ call \in Calls("normalize_index_for_insert")
                        \cup Calls("capped_index_and_length")
       \/ \E elems \in ElemSeqs :
             /\ WithArray(elems)
             /\ call \in {c \in Calls("capped_index_and_length") :
                             c.len = Len(elems)}
    /\ trace = TRUE
NextUtils ==
    \/ utils_call("normalize_index_for_insert")
    \/ utils_call("capped_index_and_length")
    \/ arrays["D1"] # NoArrays /\ mutably(1, "D1", NoTok)
    \/ \E bytes \in References :
          array_delete_range(1, bytes, call.index, call.length)

SpecUtils == InitUtils /\ [][NextUtils]_vars

\* the result of the call at hand of the function fn
Returned(fn) == call # NoCall /\ call.fn = fn /\ call.out # <<>>

\* C39: normalize_index_for_insert(len, index) is in [0, len] for every
\* u32 len and i64 index: a non-negative index is capped at len, a negative
\* index counts from the end with -1 giving len, and an index below
\* -(len + 1) gives 0.
C39_InsertIndexInRange ==
    Returned("normalize_index_for_insert")
    => LET out == call.out[1]
       IN /\ out \in 0..call.len
          /\ call.index >= 0
               => out = (IF call.index > call.len THEN call.len
                         ELSE call.index)
          /\ call.index < 0 /\ call.index >= -(call.len + 1)
               => out = call.len + call.index + 1
          /\ call.index = -1 => out = call.len
          /\ call.index < -(call.len + 1) => out = 0

\* the least index of the type has been normalized for the greatest length
C39_Witness ==
    /\ Returned("normalize_index_for_insert")
    /\ call.len = U32_MAX
    /\ call.index = I64_MIN
    /\ call.out = <<0>>

\* the index counted from the end when it is negative, and whether it is
\* the index of an element of a collection of len elements
FromEnd(len, index) == IF index < 0 THEN len + index ELSE index
InRange(len, index) == FromEnd(len, index) \in 0..(len - 1)
\* the handle is the handle of an array that is there in document d
LiveArray(d, bytes) ==
    LET hook == SharedTypeId_decode(bytes)
    IN /\ hook.tag = "Nested"
       /\ hook.id \in Ids(blocks[d])
       /\ ~ItemAt(blocks[d], hook.id).deleted
       /\ ItemAt(blocks[d], hook.id).val = NestedType

\* what C38 says of the result of capped_index_and_length
CappedAsClaimed ==
    Returned("capped_index_and_length")
    => LET out == call.out[1]
           i == FromEnd(call.len, call.index)
           n == IF call.length < call.len - i THEN call.length
                ELSE call.len - i
       IN IF ~InRange(call.len, call.index) \/ call.length = 0
          THEN out = <<>>
          ELSE /\ out = <<i, n>>
               /\ 1 <= n
               /\ i + n <= call.len

\* C38: capped_index_and_length(target_len, index, length) is None when
\* the index, counted from the end if negative, is not the index of an
\* element or length is 0, and otherwise Some((i, n)) with i that index,
\* n = min(length, target_len - i), 1 <= n and i + n <= target_len; and
\* array_delete_range with such an index or with length 0 returns ok and
\* removes nothing.
C38_CappedIndexAndLength ==
    [][/\ CappedAsClaimed'
       /\ \A p \in Procs :
             /\ pc[p].op = "mut" /\ pc'[p] = Idle
             /\ ev'.op = "array_delete_range"
             /\ LiveArray(TxnDoc(pc[p]), ev'.arg[1])
             /\ \/ ev'.arg[3] = 0
                \/ ~InRange(Len(ArrayOf(TxnDoc(pc[p]),
                                        SharedTypeId_decode(ev'.arg[1]).id)),
                            ev'.arg[2])
             => /\ ev'.res = "ok"
                /\ UNCHANGED <<arrays, store, blocks, mailbox>>
      ]_vars

\* capped_index_and_length has returned None for an index before the start
\* of a collection, and array_delete_range with that index and a length
\* above 0 has returned ok on an array that is still full
C38_Witness ==
    /\ Returned("capped_index_and_length")
    /\ call.out = <<<<>>>>
    /\ call.length > 0
    /\ call.index < -call.len
    /\ ev.op = "array_delete_range"
    /\ ev.res = "ok"
    /\ ev.arg[2] = call.index
    /\ Len(ArrayOf("D1", <<ClientOf("D1"), 1>>)) = MaxElems

\* SpecElems: the array calls of SpecArray on a document whose key holds
\* an array that has elements from the start.
InitElems ==
    /\ \E elems \in ElemSeqs : WithArray(elems)
    /\ call = NoCall
    /\ trace = TRUE

SpecElems == InitElems /\ [][NextArray]_vars

\* the index the claim gives an insertion into len elements
InsertIndex(len, index) ==
    IF index >= 0 THEN (IF index > len THEN len ELSE index)
    ELSE IF len + index + 1 < 0 THEN 0 ELSE len + index + 1

\* C37: array_insert_and_get on the handle of an array that is there
\* returns the value it was given, whatever the index: the index is
\* normalized into [0, len], the value is put there with the elements
\* before and after it kept in order, and the lookup at that index finds
\* it, so the call never fails on the lookup.
C37_InsertAndGetReturnsInserted ==
    [][\A p \in Procs :
          /\ pc[p].op = "mut" /\ pc'[p] = Idle
          /\ ev'.op = "array_insert_and_get"
          /\ LiveArray(TxnDoc(pc[p]), ev'.arg[1])
          => LET d == TxnDoc(pc[p])
                 id == SharedTypeId_decode(ev'.arg[1]).id
                 old == ArrayOf(d, id)
                 new == arrays'[d][id]
                 i == InsertIndex(Len(old), ev'.arg[2])
             IN /\ ev'.res = "ok"
                /\ ev'.val = ev'.arg[3]
                /\ i \in 0..Len(old)
                /\ Len(new) = Len(old) + 1
                /\ new[i + 1] = ev'.arg[3]
                /\ \A j \in 1..Len(old) :
                      new[IF j <= i THEN j ELSE j + 1] = old[j]
      ]_vars

\* array_insert_and_get with an index beyond the length has returned the
\* value it appended to an array that had an element
C37_Witness ==
    /\ ev.op = "array_insert_and_get"
    /\ ev.res = "ok"
    /\ ev.val = ev.arg[3]
    /\ LET array == ArrayOf("D1", SharedTypeId_decode(ev.arg[1]).id)
       IN /\ Len(array) >= 2
          /\ ev.arg[2] > Len(array)

====
